---------------------------- MODULE Spec2Model ----------------------------
(***************************************************************************)
(* Ingestion-and-normalisation engine of rental_signals: the three         *)
(* ingestion scripts under src/ingest (apartmentlist_pull.py,              *)
(* fred_tampa_rent_pull.py, zillow_zori_pull.py), each a run-to-completion *)
(* process over a month-partitioned data/bronze, data/silver tree.         *)
(*                                                                         *)
(* Runs are serialized: one run is active at a time.  The provider's side  *)
(* (status of a request, page content, payload) is chosen when the request *)
(* is issued.                                                              *)
(***************************************************************************)
EXTENDS Integers, Sequences, FiniteSets, TLC

\* ------------------------------------------------------------------ bounds
\* Number of runs in one behaviour.
MaxRuns == 2
\* Number of lines of a frame handed to a transformer on its own.
MaxRows == 2

\* ------------------------------------------------------- period tokens
\* A period token is the sequence of its characters.
Digits == {"0", "1", "2", "3", "4", "5", "6", "7", "8", "9"}

T2025_08 == <<"2", "0", "2", "5", "-", "0", "8">>
T2025_09 == <<"2", "0", "2", "5", "-", "0", "9">>
U2025_08 == <<"2", "0", "2", "5", "_", "0", "8">>
U2025_09 == <<"2", "0", "2", "5", "_", "0", "9">>
D2025_08_31 == T2025_08 \o <<"-", "3", "1">>
D2025_09_30 == T2025_09 \o <<"-", "3", "0">>
D2025_08_01 == T2025_08 \o <<"-", "0", "1">>
D2025_09_01 == T2025_09 \o <<"-", "0", "1">>

\* No --month argument (argparse default None; "" is falsy as well).
NoMonth == <<>>

\* re.match(r"\d{4}-\d{2}", s): a match at the start of s, nothing required after.
re_match_year_month(s) ==
    /\ Len(s) >= 7
    /\ \A i \in 1..4 : s[i] \in Digits
    /\ s[5] = "-"
    /\ \A i \in 6..7 : s[i] \in Digits

\* re.match(r"\d{4}_\d{2}", c): the date columns of an Apartment List CSV.
re_match_year_underscore_month(s) ==
    /\ Len(s) >= 7
    /\ \A i \in 1..4 : s[i] \in Digits
    /\ s[5] = "_"
    /\ \A i \in 6..7 : s[i] \in Digits

\* re.search(r"(\d{4})[_-](\d{2})\.csv", url), on the stamp that precedes ".csv"
\* in the file name of the URL (<<>> when the name carries none).
re_search_filename_month(stamp) ==
    /\ Len(stamp) = 7
    /\ \A i \in 1..4 : stamp[i] \in Digits
    /\ stamp[5] \in {"_", "-"}
    /\ \A i \in 6..7 : stamp[i] \in Digits

\* f"{group(1)}-{group(2)}"
filename_month(stamp) == SubSeq(stamp, 1, 4) \o <<"-">> \o SubSeq(stamp, 6, 7)

\* ---------------------------------------------------------------- dates
DigitVal(c) ==
    CASE c = "0" -> 0 [] c = "1" -> 1 [] c = "2" -> 2 [] c = "3" -> 3 [] c = "4" -> 4
      [] c = "5" -> 5 [] c = "6" -> 6 [] c = "7" -> 7 [] c = "8" -> 8 [] c = "9" -> 9

DigitChar(n) ==
    CASE n = 0 -> "0" [] n = 1 -> "1" [] n = 2 -> "2" [] n = 3 -> "3" [] n = 4 -> "4"
      [] n = 5 -> "5" [] n = 6 -> "6" [] n = 7 -> "7" [] n = 8 -> "8" [] n = 9 -> "9"

\* int() of a run of digits
RECURSIVE Num(_)
Num(s) == IF s = <<>> THEN 0 ELSE Num(SubSeq(s, 1, Len(s) - 1)) * 10 + DigitVal(s[Len(s)])

\* Whether a token reads as a date: YYYY-MM or YYYY-MM-DD with a month 01..12.
is_date(tok) ==
    /\ Len(tok) \in {7, 10}
    /\ \A i \in 1..4 : tok[i] \in Digits
    /\ tok[5] = "-"
    /\ \A i \in 6..7 : tok[i] \in Digits
    /\ Num(SubSeq(tok, 6, 7)) \in 1..12
    /\ Len(tok) = 10 => /\ tok[8] = "-"
                        /\ \A i \in 9..10 : tok[i] \in Digits
                        /\ Num(SubSeq(tok, 9, 10)) \in 1..31

\* dateparser.parse / pd.to_datetime of such a token
parse_date(tok) ==
    [y |-> Num(SubSeq(tok, 1, 4)), m |-> Num(SubSeq(tok, 6, 7)),
     d |-> IF Len(tok) = 10 THEN Num(SubSeq(tok, 9, 10)) ELSE 1]

\* strftime("%Y-%m")
strftime_ym(dt) ==
    << DigitChar(dt.y \div 1000), DigitChar((dt.y \div 100) % 10),
       DigitChar((dt.y \div 10) % 10), DigitChar(dt.y % 10), "-",
       DigitChar(dt.m \div 10), DigitChar(dt.m % 10) >>

\* The order of dates.
date_ord(dt) == (dt.y * 12 + dt.m) * 31 + dt.d

\* today.replace(day=1) - timedelta(days=1), strftime("%Y-%m"): the clock of
\* the behaviour stands in October 2025.
last_month == T2025_09

\* ------------------------------------------------------------ sources
APL == "apartmentlist"
FRED == "fred"
ZIL == "zillow_zori"
Sources == {APL, FRED, ZIL}

\* ---------------------------------------------------------- filesystem
\* data/<layer>/<src>/date=<key>/<name>; name = "" is the partition directory.
Path(layer, s, key, name) == [layer |-> layer, src |-> s, key |-> key, name |-> name]
\* BRONZE_BASE and SILVER_BASE without the "/ SOURCE_NAME" part.
DirOf_shared_base(layer, s, key) == Path(layer, "", key, "")
DirOf(layer, s, key) == Path(layer, s, key, "")

VARIABLES
    dirs,       \* partition directories present
    files,      \* path -> content of the files present
    runNo,      \* runs started so far; the clock that stamps pulled_at
    pc,         \* position of the active run
    src,        \* source of the active run
    month,      \* --month
    force,      \* --force
    api_key,    \* FRED_API_KEY of the run's environment
    links,      \* discovered (label, url) links
    idx,        \* loop position over links / tidy_frames
    target,     \* target_month / latest_period
    existing,   \* existing months the ledger listed
    resp,       \* the landing page the run fetched (resp.text)
    df,         \* the payload read into the run
    frames,     \* tidy_frames
    stdout,     \* summary lines printed by the active run
    exit,       \* exit code of the active run once it ended
    requests,   \* requests the active run issued, in order
    writes,     \* paths the active run created or wrote
    errors,     \* fatal conditions the active run met
    decisions,  \* the ledger's decisions in the active run: (period, skip)
    dirs0,      \* dirs when the active run started
    files0,     \* files when the active run started
    \* one session.get seen from inside the fetch layer
    req_url,    \* the URL requested
    attempts,   \* the responses received for it, in order
    total,      \* Retry.total: the retries left
    fetch,      \* "idle", "trying", "returned" or "raised"
    \* one call of a transformer seen on its own
    wide,       \* the frame handed to it: its source and what read_csv / the API gave
    tidied,     \* what the call produced
    \* a second run in flight beside the active one
    other,      \* the variables of the run that is not at the processor
    \* the REST API
    api,        \* the exchanges of GET /v1/health, in order
    \* the scheduler
    sensor,     \* data_freshness_sensor: clock, cursor, run requests, last evaluation
    asset       \* what the last ingestion asset reported and uploaded

\* The variables of the fetch layer and of the transformers; a run's actions
\* leave them alone.
fetchVars == <<req_url, attempts, total, fetch>>
tidyVars == <<wide, tidied>>
outerVars == <<other, api, sensor, asset>>
unitVars == <<fetchVars, tidyVars, outerVars>>

\* The variables of a run.
runVars == <<dirs, files, runNo, pc, src, month, force, api_key, links, idx, target,
             existing, resp, df, frames, stdout, exit, requests, writes, errors,
             decisions, dirs0, files0>>

vars == <<runVars, unitVars>>

\* Path.mkdir(parents=True, exist_ok=True)
mkdir(d, p) == d \cup {p}

\* write_bytes / open(..., "w") / pq.write_table: create or replace
\* A write that keeps a file another process already wrote.
write_file_exclusive(f, p, c) ==
    IF p \in DOMAIN f THEN f ELSE [q \in DOMAIN f \cup {p} |-> IF q = p THEN c ELSE f[q]]

write_file(f, p, c) == [q \in DOMAIN f \cup {p} |-> IF q = p THEN c ELSE f[q]]

NoFiles == [q \in {} |-> 0]

\* No request under way.
NoUrl == [src |-> "", kind |-> "", scheme |-> ""]

\* No frame handed to a transformer, no call made.
NoFrame == [src |-> "", df |-> <<>>]
NoTidy == [call |-> "", arg |-> "", err |-> FALSE, frames |-> <<>>, rows |-> <<>>]


\* ------------------------------------------------------------- payloads
\* A tabular payload as pd.read_csv sees it:
\*   idcols    the identity column headers present
\*   datecols  the headers that are period tokens, in file order
\*   extracols other headers
\*   rows      one record per line: the identity cells by canonical name and
\*             vals, the cells under datecols in order
\* A cell that read_csv parsed as missing (empty, "N/A") is NaN.
NaN == -1

Row(rt, rn, rid, bed, vals) ==
    [region_type |-> rt, region_name |-> rn, region_id |-> rid, bed_size |-> bed,
     vals |-> vals]

AplHeaders == {"location_name", "location_type", "location_fips_code", "bed_size"}

AplPayloadIds == {"apl_tampa", "apl_miami", "apl_noregion"}
ZilPayloadIds == {"zil_metro_09", "zil_city_09", "zil_city_08", "zil_city_extra",
                  "zil_metro_miami", "zil_nodates"}
FredPayloadIds == {"fred_09", "fred_08", "fred_empty"}

Payload(id) ==
    CASE id = "unit" -> wide.df
      [] id = "apl_tampa" ->
           [idcols |-> AplHeaders, datecols |-> <<U2025_08, U2025_09>>, extracols |-> {},
            rows |-> << Row("Metro", "Tampa, FL", "45300", "overall", <<1700, 1710>>),
                        Row("Metro", "Tampa, FL", "45300", "1br", <<1500, NaN>>),
                        Row("Metro", "Miami, FL", "33100", "overall", <<2400, 2410>>) >>]
      [] id = "apl_miami" ->
           [idcols |-> AplHeaders, datecols |-> <<U2025_08, U2025_09>>, extracols |-> {},
            rows |-> << Row("Metro", "Miami, FL", "33100", "overall", <<2400, 2410>>) >>]
      [] id = "apl_noregion" ->
           [idcols |-> {"location_fips_code", "bed_size"},
            datecols |-> <<U2025_08, U2025_09>>, extracols |-> {},
            rows |-> << Row("", "", "45300", "overall", <<1700, 1710>>) >>]
      [] id = "zil_metro_09" ->
           [idcols |-> {"RegionID", "SizeRank", "RegionName", "RegionType", "StateName"},
            datecols |-> <<D2025_08_31, D2025_09_30>>, extracols |-> {},
            rows |-> << Row("msa", "Tampa, FL", "395148", "", <<1990, NaN>>),
                        Row("msa", "Miami, FL", "394856", "", <<2800, 2810>>) >>]
      [] id = "zil_city_09" ->
           [idcols |-> {"RegionID", "SizeRank", "RegionName", "RegionType", "StateName"},
            datecols |-> <<D2025_09_30>>, extracols |-> {},
            rows |-> << Row("city", "Tampa, FL", "41176", "", <<2100>>) >>]
      [] id = "zil_city_08" ->
           [idcols |-> {"RegionID", "SizeRank", "RegionName", "RegionType", "StateName"},
            datecols |-> <<D2025_08_31>>, extracols |-> {},
            rows |-> << Row("city", "Tampa, FL", "41176", "", <<2090>>) >>]
      [] id = "zil_city_extra" ->
           [idcols |-> {"RegionID", "SizeRank", "RegionName", "RegionType", "StateName"},
            datecols |-> <<D2025_09_30>>, extracols |-> {"Metro"},
            rows |-> << Row("city", "Tampa, FL", "41176", "", <<2100>>) >>]
      [] id = "zil_metro_miami" ->
           [idcols |-> {"RegionID", "SizeRank", "RegionName", "RegionType", "StateName"},
            datecols |-> <<D2025_09_30>>, extracols |-> {},
            rows |-> << Row("msa", "Miami, FL", "394856", "", <<2810>>) >>]
      [] id = "zil_nodates" ->
           [idcols |-> {"RegionID", "RegionName", "RegionType"},
            datecols |-> <<>>, extracols |-> {},
            rows |-> << Row("msa", "Tampa, FL", "395148", "", <<>>) >>]

\* str.lower() on the strings of the model
Lower(s) ==
    CASE s = "Metro" -> "metro"
      [] s = "MSA" -> "msa"
      [] s = "City" -> "city"
      [] s = "Tampa, FL" -> "tampa, fl"
      [] s = "Miami, FL" -> "miami, fl"
      [] s = "Tampa-St. Petersburg-Clearwater, FL" -> "tampa-st. petersburg-clearwater, fl"
      [] s = "Tampa - St. Petersburg - Clearwater, FL" -> "tampa - st. petersburg - clearwater, fl"
      [] s = "Tampa" -> "tampa"
      [] OTHER -> s

\* The lower-cased names of the model that contain lower-cased needle n.
Containing(n) ==
    CASE n = "tampa" -> {"tampa", "tampa, fl", "tampa-st. petersburg-clearwater, fl",
                         "tampa - st. petersburg - clearwater, fl"}
      [] OTHER -> {n}

\* Series.str.contains(needle, case=False, na=False)
str_contains(hay, needle) == Lower(hay) \in Containing(Lower(needle))

\* A tidy row.
Tidy(s, rt, rn, rid, bed, period, value, at) ==
    [source |-> s, region_type |-> rt, region_name |-> rn, region_id |-> rid,
     bed_size |-> bed, period |-> period, value |-> value, pulled_at |-> at]

\* DataFrame.melt(id_vars, value_vars): one line per (value column, row), the
\* value columns outermost; cols are positions in datecols.
melt(rows, cols) ==
    [k \in 1..(Len(cols) * Len(rows)) |->
        [row |-> rows[((k - 1) % Len(rows)) + 1],
         col |-> cols[((k - 1) \div Len(rows)) + 1]]]

\* str.replace("_", "-")
str_replace_underscore(s) == [i \in 1..Len(s) |-> IF s[i] = "_" THEN "-" ELSE s[i]]

\* Result of a call that may raise.
Raised == [err |-> TRUE, rows |-> <<>>]
Returned(rows) == [err |-> FALSE, rows |-> rows]

\* 1..n as a sequence: the column positions of a header
Indices(n) == [i \in 1..n |-> i]

apl_column_mapping(c) ==
    CASE c = "location_name" -> "region_name"
      [] c = "location_type" -> "region_type"
      [] c = "location_fips_code" -> "region_id"
      [] OTHER -> c

tidy_apartmentlist(id, location_type, location_name, now) ==
    LET p == Payload(id)
        columns == {apl_column_mapping(c) : c \in p.idcols}
        Keep(r) == /\ Lower(r.region_type) = Lower(location_type)
                   /\ str_contains(r.region_name, location_name)
        df_filtered == SelectSeq(p.rows, Keep)
        IsDate(i) == re_match_year_underscore_month(p.datecols[i])
        date_cols == SelectSeq(Indices(Len(p.datecols)), IsDate)
        df_long == melt(df_filtered, date_cols)
        Line(k) == LET r == df_long[k].row
                       c == df_long[k].col
                   IN  Tidy(APL, r.region_type, r.region_name,
                            IF "region_id" \in columns THEN r.region_id ELSE "",
                            IF "bed_size" \in columns THEN r.bed_size ELSE "",
                            str_replace_underscore(p.datecols[c]), r.vals[c], now)
        tidy == [k \in 1..Len(df_long) |-> Line(k)]
        NotNa(t) == t.value # NaN
    IN  IF ~({"region_type", "region_name"} \subseteq columns) THEN Raised
        ELSE IF Len(df_filtered) = 0 THEN Returned(<<>>)
        ELSE IF Len(date_cols) = 0 THEN Raised
        ELSE Returned(SelectSeq(tidy, NotNa))

\* DataFrame.drop_duplicates(subset=["period", "region_name"]), keep="first"
RECURSIVE drop_dup(_, _)
drop_dup(s, acc) ==
    IF s = <<>> THEN acc
    ELSE LET h == Head(s)
             dup == \E i \in 1..Len(acc) :
                       acc[i].period = h.period /\ acc[i].region_name = h.region_name
         IN  drop_dup(Tail(s), IF dup THEN acc ELSE Append(acc, h))

drop_duplicates(s) == drop_dup(s, <<>>)

tampa_names == << "Tampa-St. Petersburg-Clearwater, FL", "Tampa, FL",
                  "Tampa - St. Petersburg - Clearwater, FL", "Tampa" >>

\* The loop over tampa_names without its break: every variant with rows is kept.
RECURSIVE apl_tidy_frames_no_break(_, _, _)
apl_tidy_frames_no_break(id, i, now) ==
    IF i > Len(tampa_names) THEN <<>>
    ELSE LET res == tidy_apartmentlist(id, "Metro", tampa_names[i], now)
         IN  IF ~res.err /\ Len(res.rows) > 0
             THEN <<res.rows>> \o apl_tidy_frames_no_break(id, i + 1, now)
             ELSE apl_tidy_frames_no_break(id, i + 1, now)

\* The loop over tampa_names: the first variant with rows wins; a variant that
\* raises is printed and the loop goes on.
RECURSIVE apl_tidy_frames(_, _, _)
apl_tidy_frames(id, i, now) ==
    IF i > Len(tampa_names) THEN <<>>
    ELSE LET res == tidy_apartmentlist(id, "Metro", tampa_names[i], now)
         IN  IF ~res.err /\ Len(res.rows) > 0 THEN <<res.rows>>
             ELSE apl_tidy_frames(id, i + 1, now)

\* pd.concat(tidy_frames, ignore_index=True)
RECURSIVE concat(_)
concat(fs) == IF fs = <<>> THEN <<>> ELSE Head(fs) \o concat(Tail(fs))

\* ----------------------------------------------------------- file content
\* enc tells how the bytes on disk came about: "raw" is the response body as
\* received, "json.dump" the parsed document serialised again.
Bronze(id, enc, at) == [kind |-> "bronze", bytes |-> id, enc |-> enc, rows |-> <<>>, at |-> at]
Silver(rows, at) == [kind |-> "silver", bytes |-> "", enc |-> "parquet", rows |-> rows, at |-> at]

\* "<source>: latest=<period> rows=<count> saved=<path>"
Summary(s, period, count, path) ==
    [source |-> s, latest |-> period, rows |-> count, saved |-> path]

\* ------------------------------------------------------------- ledger
\* load_existing_silver_months of apartmentlist_pull.py and zillow_zori_pull.py:
\* the suffixes of the date=* directories under SILVER_BASE that the pattern
\* matches.  (sorted() orders a list only used for membership.)
load_existing_silver_months(s, d) ==
    { p.key : p \in { q \in d : q.layer = "silver" /\ q.src = s /\ q.name = ""
                                 /\ re_match_year_month(q.key) } }

\* load_existing_months of fred_tampa_rent_pull.py: no pattern.
load_existing_months(d) ==
    { p.key : p \in { q \in d : q.layer = "silver" /\ q.src = FRED /\ q.name = "" } }

\* should_skip with the force flag forgotten.
should_skip_ignores_force(f, period, months) == period \in months

\* (not force) and (target_month in existing_months)
should_skip(f, period, months) == (~f) /\ (period \in months)

\* Whether some variant tried by the loop raised (printed and swallowed).
RECURSIVE apl_tidy_raised(_, _, _)
apl_tidy_raised(id, i, now) ==
    IF i > Len(tampa_names) THEN FALSE
    ELSE LET res == tidy_apartmentlist(id, "Metro", tampa_names[i], now)
         IN  IF ~res.err /\ Len(res.rows) > 0 THEN FALSE
             ELSE res.err \/ apl_tidy_raised(id, i + 1, now)

\* ------------------------------------------------------------ requests
Req(kind, ok) == [kind |-> kind, ok |-> ok]

\* One decision of the ledger.
Decision(period, skip) == [period |-> period, skip |-> skip]

\* ------------------------------------------------- beside the active run
\* No second run in flight.
NoRun == [pc |-> "none"]

\* The sensor before its first evaluation: context.cursor is None; clock counts
\* half hours.
NoEval == [evaluated |-> FALSE, at |-> 0, fresh |-> {}, raised |-> FALSE, cursor |-> <<>>,
           requested |-> FALSE]
NoSensor == [clock |-> 0, cursor |-> <<>>, run_requests |-> <<>>, last |-> NoEval]

\* No asset materialised yet.
NoAsset == [run |-> 0, outcome |-> "", month |-> <<>>, rows |-> 0, uploaded |-> {}]

\* ---------------------------------------------------- run start and end
\* The --month argument: absent, a canonical month, and two forms argparse
\* passes through unchanged (underscore form, full date).
MonthArgs == {NoMonth, T2025_08, U2025_09, D2025_09_30}
ApiKeys == {"<unset>", "", "abc123"}

Init ==
    /\ dirs = {}
    /\ files = NoFiles
    /\ runNo = 0
    /\ pc = "idle"
    /\ src = APL
    /\ month = NoMonth
    /\ force = FALSE
    /\ api_key = "<unset>"
    /\ links = <<>>
    /\ idx = 1
    /\ target = NoMonth
    /\ existing = {}
    /\ resp = {}
    /\ df = ""
    /\ frames = <<>>
    /\ stdout = <<>>
    /\ exit = 0
    /\ requests = <<>>
    /\ writes = {}
    /\ errors = {}
    /\ decisions = {}
    /\ dirs0 = {}
    /\ files0 = NoFiles
    /\ req_url = NoUrl
    /\ attempts = <<>>
    /\ total = 0
    /\ fetch = "idle"
    /\ wide = NoFrame
    /\ tidied = NoTidy
    /\ other = NoRun
    /\ api = <<>>
    /\ sensor = NoSensor
    /\ asset = NoAsset

\* The scheduler (or a user) starts the next run once the previous one ended.
\* A behaviour follows one script through its runs: a script reads and writes
\* only under data/<layer>/<its SOURCE_NAME>/ (BRONZE_BASE, SILVER_BASE).
StartRun(s, m, f, k) ==
    /\ pc \in {"idle", "done"}
    /\ runNo = 0 \/ s = src
    /\ runNo < MaxRuns
    /\ runNo' = runNo + 1
    /\ src' = s
    /\ month' = m
    /\ force' = f
    /\ api_key' = k
    /\ pc' = CASE s = APL -> "apl_page" [] s = FRED -> "fred_key" [] s = ZIL -> "zil_page"
    /\ links' = <<>>
    /\ idx' = 1
    /\ target' = NoMonth
    /\ existing' = {}
    /\ resp' = IF s = ZIL THEN <<>> ELSE {}
    /\ df' = ""
    /\ frames' = <<>>
    /\ stdout' = <<>>
    /\ exit' = 0
    /\ requests' = <<>>
    /\ writes' = {}
    /\ errors' = {}
    /\ decisions' = {}
    /\ dirs0' = dirs
    /\ files0' = files
    /\ UNCHANGED <<dirs, files, unitVars>>

\* fred_tampa_rent_pull.py defines --force only: parse_args() refuses --month
\* (unrecognized arguments) and the process exits with code 2 before main.
FredRejectMonth(m, f, k) ==
    /\ pc \in {"idle", "done"}
    /\ runNo = 0 \/ src = FRED
    /\ runNo < MaxRuns
    /\ m # NoMonth
    /\ runNo' = runNo + 1
    /\ src' = FRED
    /\ month' = m
    /\ force' = f
    /\ api_key' = k
    /\ pc' = "done"
    /\ exit' = 2
    /\ errors' = {"usage"}
    /\ links' = <<>>
    /\ idx' = 1
    /\ target' = NoMonth
    /\ existing' = {}
    /\ resp' = {}
    /\ df' = ""
    /\ frames' = <<>>
    /\ stdout' = <<>>
    /\ requests' = <<>>
    /\ writes' = {}
    /\ decisions' = {}
    /\ dirs0' = dirs
    /\ files0' = files
    /\ UNCHANGED <<dirs, files, unitVars>>

\* The process ends: return from main (code 0) or an uncaught exception (code 1).
Ends(code, errs) ==
    /\ pc' = "done"
    /\ exit' = code
    /\ errors' = errors \cup errs

\* --------------------------------------------------------- apartmentlist
\* A CSV URL embedded in the research page: ord is its place in sorted(), marks
\* the markers its file name contains, stamp the YYYY_MM before ".csv".
Url(ord, marks, stamp) == [ord |-> ord, marks |-> marks, stamp |-> stamp]
UrlEstimates09 == Url(2, {"Apartment_List_Rent_Estimates_"}, U2025_09)
UrlEstimatesPlain == Url(2, {"Apartment_List_Rent_Estimates_"}, <<>>)
UrlSummary09 == Url(1, {"Apartment_List_Rent_Estimates_", "Summary"}, U2025_09)
UrlGrowth09 == Url(3, {"Growth"}, U2025_09)

\* What csv_pattern.findall(html) may return, as set(matches).
AplPages == { {UrlSummary09, UrlGrowth09},
              {UrlSummary09, UrlEstimates09, UrlGrowth09},
              {UrlEstimatesPlain} }

\* sorted(set(matches))
RECURSIVE sorted_urls(_)
sorted_urls(S) ==
    IF S = {} THEN <<>>
    ELSE LET u == CHOOSE x \in S : \A y \in S : x.ord <= y.ord
         IN  <<u>> \o sorted_urls(S \ {u})

\* discover_csv_urls without the rejection of Summary files.
discover_csv_urls_keeps_summary(html) ==
    LET Wanted(u) == /\ "Apartment_List_Rent_Estimates_" \in u.marks
                     /\ "Growth" \notin u.marks
    IN  SelectSeq(sorted_urls(html), Wanted)

discover_csv_urls(html) ==
    LET Wanted(u) == /\ "Apartment_List_Rent_Estimates_" \in u.marks
                     /\ "Summary" \notin u.marks
                     /\ "Growth" \notin u.marks
    IN  SelectSeq(sorted_urls(html), Wanted)

\* main, lines 240-252: the month of the file name unless --month is given,
\* --month as given, else the previous month.
apl_target_month(url, m) ==
    IF re_search_filename_month(url.stamp) /\ m = NoMonth THEN filename_month(url.stamp)
    ELSE IF m # NoMonth THEN m
    ELSE last_month

\* session.get(PAGE_URL); resp.raise_for_status()
AplFetchPage ==
    /\ pc = "apl_page"
    /\ \E ok \in BOOLEAN :
          /\ requests' = Append(requests, Req("page", ok))
          /\ IF ok
             THEN /\ \E h \in AplPages : resp' = h
                  /\ pc' = "apl_discover"
                  /\ UNCHANGED <<exit, errors>>
             ELSE /\ Ends(1, {"fetch"})
                  /\ UNCHANGED resp
    /\ UNCHANGED <<dirs, files, runNo, src, month, force, api_key, links, idx, target,
                   existing, df, frames, stdout, writes, decisions, dirs0, files0, unitVars>>

\* main, lines 227-260: discovery, target month, ledger.
AplDiscover ==
    /\ pc = "apl_discover"
    /\ LET csv_links == discover_csv_urls(resp)
           target_month == apl_target_month(csv_links[1], month)
           existing_months == load_existing_silver_months(APL, dirs)
       IN  IF csv_links = <<>>
           THEN /\ Ends(0, {"discovery"})
                /\ UNCHANGED <<links, target, existing, decisions>>
           ELSE /\ links' = csv_links
                /\ target' = target_month
                /\ existing' = existing_months
                /\ decisions' = decisions \cup
                       {Decision(target_month, should_skip(force, target_month, existing_months))}
                /\ IF should_skip(force, target_month, existing_months)
                   THEN Ends(0, {})
                   ELSE /\ pc' = "apl_download"
                        /\ UNCHANGED <<exit, errors>>
    /\ UNCHANGED <<dirs, files, runNo, src, month, force, api_key, idx, resp, df, frames,
                   stdout, requests, writes, dirs0, files0, unitVars>>

\* download_csv(session, url, bronze_path) and its caller, lines 262-268
AplDownload ==
    /\ pc = "apl_download"
    /\ LET bronze_dir == DirOf("bronze", APL, target)
           bronze_path == Path("bronze", APL, target, "apartmentlist_historic.csv")
       IN  \E ok \in BOOLEAN :
             /\ requests' = Append(requests, Req("artifact", ok))
             /\ dirs' = mkdir(dirs, bronze_dir)
             /\ IF ok
                THEN /\ \E id \in AplPayloadIds :
                          files' = write_file(files, bronze_path, Bronze(id, "raw", runNo))
                     /\ writes' = writes \cup ({bronze_dir} \ dirs) \cup {bronze_path}
                     /\ pc' = "apl_transform"
                     /\ UNCHANGED <<exit, errors>>
                ELSE /\ writes' = writes \cup ({bronze_dir} \ dirs)
                     /\ Ends(0, {"fetch"})
                     /\ UNCHANGED files
    /\ UNCHANGED <<runNo, src, month, force, api_key, links, idx, target, existing, resp,
                   df, frames, stdout, decisions, dirs0, files0, unitVars>>

\* main, lines 270-304: read the bronze file back, try the region variants.
AplTransform ==
    /\ pc = "apl_transform"
    /\ LET bronze_path == Path("bronze", APL, target, "apartmentlist_historic.csv")
           id == files[bronze_path].bytes
           tidy_frames == apl_tidy_frames(id, 1, runNo)
           raised == apl_tidy_raised(id, 1, runNo)
       IN  /\ df' = id
           /\ frames' = tidy_frames
           /\ IF tidy_frames = <<>>
              THEN Ends(0, IF raised THEN {"schema"} ELSE {})
              ELSE /\ pc' = "apl_silver"
                   /\ errors' = errors \cup (IF raised THEN {"schema"} ELSE {})
                   /\ UNCHANGED exit
    /\ UNCHANGED <<dirs, files, runNo, src, month, force, api_key, links, idx, target,
                   existing, resp, stdout, requests, writes, decisions, dirs0, files0, unitVars>>

\* main, lines 306-314: combine, de-duplicate, save_parquet, print the summary.
AplWriteSilver ==
    /\ pc = "apl_silver"
    /\ LET combined == drop_duplicates(concat(frames))
           silver_dir == DirOf("silver", APL, target)
           silver_path == Path("silver", APL, target, "apartmentlist_tampa.parquet")
       IN  /\ dirs' = mkdir(dirs, silver_dir)
           /\ files' = write_file(files, silver_path, Silver(combined, runNo))
           /\ writes' = writes \cup ({silver_dir} \ dirs) \cup {silver_path}
           /\ stdout' = Append(stdout, Summary(APL, target, Len(combined), silver_path))
    /\ Ends(0, {})
    /\ UNCHANGED <<runNo, src, month, force, api_key, links, idx, target, existing, resp,
                   df, frames, requests, decisions, dirs0, files0, unitVars>>

AplNext == AplFetchPage \/ AplDiscover \/ AplDownload \/ AplTransform \/ AplWriteSilver

\* ------------------------------------------------------------------ fred
\* One observation of the API's JSON: value is text, "." for a missing one.
Obs(date, text, num) == [date |-> date, text |-> text, num |-> num]

\* data.get("observations", [])
Observations(id) ==
    CASE id = "unit" -> wide.df
      [] id = "fred_09" -> << Obs(D2025_09_01, ".", 0), Obs(D2025_08_01, "412", 412) >>
      [] id = "fred_08" -> << Obs(D2025_08_01, "412", 412) >>
      [] id = "fred_empty" -> <<>>

\* pd.to_numeric(text, errors="coerce")
to_numeric(o) == IF o.text = "." THEN NaN ELSE o.num

\* obs_df.sort_values("date")
RECURSIVE sort_values(_)
sort_values(obs) ==
    IF obs = <<>> THEN <<>>
    ELSE LET i == CHOOSE j \in 1..Len(obs) :
                     \A k \in 1..Len(obs) :
                        date_ord(parse_date(obs[j].date)) <= date_ord(parse_date(obs[k].date))
             rest == [k \in 1..(Len(obs) - 1) |-> IF k < i THEN obs[k] ELSE obs[k + 1]]
         IN  <<obs[i]>> \o sort_values(rest)

\* latest_row["date"].strftime("%Y-%m")
fred_latest_period(id) ==
    LET obs_df == sort_values(Observations(id))
    IN  strftime_ym(parse_date(obs_df[Len(obs_df)].date))

\* main, lines 139-150: every observation becomes a row.
fred_tidy(id, now) ==
    LET obs_df == sort_values(Observations(id))
    IN  [k \in 1..Len(obs_df) |->
            Tidy(FRED, "national", "U.S. City Average", "CUUR0000SEHA", "",
                 strftime_ym(parse_date(obs_df[k].date)), to_numeric(obs_df[k]), now)]

\* FredCheckKey consulting the ledger for the previous month before any request.
FredCheckKey_ledger_first ==
    /\ pc = "fred_key"
    /\ IF should_skip(force, last_month, load_existing_months(dirs))
       THEN /\ Ends(0, {})
            /\ decisions' = decisions \cup {Decision(last_month, TRUE)}
       ELSE /\ pc' = "fred_fetch"
            /\ UNCHANGED <<exit, errors, decisions>>
    /\ UNCHANGED <<dirs, files, runNo, src, month, force, api_key, links, idx, target,
                   existing, resp, df, frames, stdout, requests, writes, dirs0, files0, unitVars>>

\* FredCheckKey testing "api_key is None" in place of "not api_key".
FredCheckKey_unset_only ==
    /\ pc = "fred_key"
    /\ IF api_key = "<unset>"
       THEN Ends(0, {"config"})
       ELSE /\ pc' = "fred_fetch"
            /\ UNCHANGED <<exit, errors>>
    /\ UNCHANGED <<dirs, files, runNo, src, month, force, api_key, links, idx, target,
                   existing, resp, df, frames, stdout, requests, writes, decisions, dirs0,
                   files0, unitVars>>

\* main, lines 91-100: "if not api_key"
FredCheckKey ==
    /\ pc = "fred_key"
    /\ IF api_key \in {"<unset>", ""}
       THEN Ends(0, {"config"})
       ELSE /\ pc' = "fred_fetch"
            /\ UNCHANGED <<exit, errors>>
    /\ UNCHANGED <<dirs, files, runNo, src, month, force, api_key, links, idx, target,
                   existing, resp, df, frames, stdout, requests, writes, decisions, dirs0,
                   files0, unitVars>>

\* fetch_observations(api_key)
FredFetch ==
    /\ pc = "fred_fetch"
    /\ \E ok \in BOOLEAN :
          /\ requests' = Append(requests, Req("api", ok))
          /\ IF ok
             THEN /\ \E id \in FredPayloadIds : df' = id
                  /\ pc' = "fred_resolve"
                  /\ UNCHANGED <<exit, errors>>
             ELSE /\ Ends(1, {"fetch"})
                  /\ UNCHANGED df
    /\ UNCHANGED <<dirs, files, runNo, src, month, force, api_key, links, idx, target,
                   existing, resp, frames, stdout, writes, decisions, dirs0, files0, unitVars>>

\* main, lines 104-128: latest period and ledger.
FredResolve ==
    /\ pc = "fred_resolve"
    /\ LET latest_period == fred_latest_period(df)
           existing_months == load_existing_months(dirs)
       IN  IF Observations(df) = <<>>
           THEN /\ Ends(0, {})
                /\ UNCHANGED <<target, existing, decisions>>
           ELSE /\ target' = latest_period
                /\ existing' = existing_months
                /\ decisions' = decisions \cup
                       {Decision(latest_period, should_skip(force, latest_period, existing_months))}
                /\ IF should_skip(force, latest_period, existing_months)
                   THEN Ends(0, {})
                   ELSE /\ pc' = "fred_bronze"
                        /\ UNCHANGED <<exit, errors>>
    /\ UNCHANGED <<dirs, files, runNo, src, month, force, api_key, links, idx, resp, df,
                   frames, stdout, requests, writes, dirs0, files0, unitVars>>

\* main, lines 130-137: bronze_dir.mkdir, json.dump(data)
FredWriteBronze ==
    /\ pc = "fred_bronze"
    /\ LET bronze_dir == DirOf("bronze", FRED, target)
           json_path == Path("bronze", FRED, target, "CUUR0000SEHA.json")
       IN  /\ dirs' = mkdir(dirs, bronze_dir)
           /\ files' = write_file(files, json_path, Bronze(df, "json.dump", runNo))
           /\ writes' = writes \cup ({bronze_dir} \ dirs) \cup {json_path}
    /\ pc' = "fred_silver"
    /\ UNCHANGED <<runNo, src, month, force, api_key, links, idx, target, existing, resp,
                   df, frames, stdout, exit, requests, errors, decisions, dirs0, files0, unitVars>>

\* main, lines 139-156: tidy frame, save_parquet, summary.
FredWriteSilver ==
    /\ pc = "fred_silver"
    /\ LET tidy_df == fred_tidy(df, runNo)
           silver_dir == DirOf("silver", FRED, target)
           silver_path == Path("silver", FRED, target, "fred_tampa_rent.parquet")
       IN  /\ dirs' = mkdir(dirs, silver_dir)
           /\ files' = write_file(files, silver_path, Silver(tidy_df, runNo))
           /\ writes' = writes \cup ({silver_dir} \ dirs) \cup {silver_path}
           /\ stdout' = Append(stdout, Summary(FRED, target, Len(tidy_df), silver_path))
    /\ Ends(0, {})
    /\ UNCHANGED <<runNo, src, month, force, api_key, links, idx, target, existing, resp,
                   df, frames, requests, decisions, dirs0, files0, unitVars>>

FredNext == FredCheckKey \/ FredFetch \/ FredResolve \/ FredWriteBronze \/ FredWriteSilver

\* ---------------------------------------------------------------- zillow
\* An anchor of the research page: marks are the substrings of interest its
\* lower-cased href contains, text its stripped text.
Anchor(marks, text) == [marks |-> marks, text |-> text]
AnchorMetro == Anchor({"zori", ".csv", "metro"}, "Download")
AnchorCity == Anchor({"zori", ".csv", "city"}, "")
AnchorZhvi == Anchor({".csv", "metro"}, "Download")

\* What soup.find_all("a", href=True) may return.
ZilPages == { <<AnchorZhvi>>, <<AnchorZhvi, AnchorMetro>>, <<AnchorMetro, AnchorCity>> }

\* A discovered link: anchor_text and the kind of file the URL serves.
Link(text, kind) == [text |-> text, kind |-> kind]

type_label(marks) ==
    IF "metro" \in marks THEN "Metro" ELSE IF "city" \in marks THEN "City" ELSE "ZIP"

discover_zori_csv_links(anchors) ==
    LET Wanted(a) == /\ "zori" \in a.marks
                     /\ ".csv" \in a.marks
                     /\ a.marks \cap {"metro", "city", "zip"} # {}
        ToLink(a) ==
            LET label == type_label(a.marks)
            IN  Link(IF a.text \in {"", "Download", "download"}
                     THEN (CASE label = "Metro" -> "Metro ZORI"
                             [] label = "City" -> "City ZORI"
                             [] label = "ZIP" -> "ZIP ZORI")
                     ELSE a.text,
                     Lower(label))
        kept == SelectSeq(anchors, Wanted)
    IN  [i \in 1..Len(kept) |-> ToLink(kept[i])]

\* The words "zip" and "metro" in anchor_text.lower()
text_has(text, word) ==
    CASE word = "zip" -> text = "ZIP ZORI"
      [] word = "metro" -> text = "Metro ZORI"

\* re.sub(r"\W+", "_", anchor_text.lower()).strip("_") + ".csv"
slug_csv(text) ==
    CASE text = "Metro ZORI" -> "metro_zori.csv"
      [] text = "City ZORI" -> "city_zori.csv"
      [] text = "ZIP ZORI" -> "zip_zori.csv"

\* The files the provider may serve for a link.
ZilServes(kind) ==
    CASE kind = "metro" -> {"zil_metro_09", "zil_metro_miami", "zil_nodates"}
      [] kind = "city" -> {"zil_city_09", "zil_city_08", "zil_city_extra"}
      [] OTHER -> {}

\* re.match(r"\d{4}-\d{2}(-\d{2})?$", c) or re.match(r"\d{4}-\d{2}$", c)
re_match_date_column(c) ==
    /\ Len(c) \in {7, 10}
    /\ \A i \in 1..4 : c[i] \in Digits
    /\ c[5] = "-"
    /\ \A i \in 6..7 : c[i] \in Digits
    /\ Len(c) = 10 => (c[8] = "-" /\ \A i \in 9..10 : c[i] \in Digits)

\* A result that may have raised, carrying a period.
NoLatest == [err |-> TRUE, period |-> NoMonth]

latest_month_from_df(id) ==
    LET p == Payload(id)
        date_cols == SelectSeq(p.datecols, re_match_date_column)
        latest == CHOOSE c \in { date_cols[i] : i \in 1..Len(date_cols) } :
                     \A i \in 1..Len(date_cols) :
                        date_ord(parse_date(date_cols[i])) <= date_ord(parse_date(c))
    IN  IF date_cols = <<>> \/ \E i \in 1..Len(date_cols) : ~is_date(date_cols[i])
        THEN NoLatest
        ELSE [err |-> FALSE, period |-> strftime_ym(parse_date(latest))]

zil_column_mapping(c) ==
    CASE c = "RegionID" -> "region_id"
      [] c = "SizeRank" -> "size_rank"
      [] c = "RegionName" -> "region_name"
      [] c = "RegionType" -> "region_type"
      [] c = "StateName" -> "state"
      [] OTHER -> c

\* str(region_id).startswith(prefix), on the identifiers of the model
starts_with(rid, prefix) == prefix = "336" /\ rid \in {"33602", "33647"}

tidy_zori(id, region_type_filter, region_name_filter, region_id_prefixes, now) ==
    LET p == Payload(id)
        columns == {zil_column_mapping(c) : c \in p.idcols}
        ByType(r) == region_type_filter = {} \/ Lower(r.region_type) \in region_type_filter
        ByName(r) == region_name_filter = {}
                     \/ Lower(r.region_name) \in {Lower(n) : n \in region_name_filter}
        ByPrefix(r) == region_id_prefixes = {} \/ "region_id" \notin columns
                       \/ \E pre \in region_id_prefixes : starts_with(r.region_id, pre)
        Keep(r) == ByType(r) /\ ByName(r) /\ ByPrefix(r)
        filt_df == SelectSeq(p.rows, Keep)
        \* every column that is no meta column is melted, the extra ones too
        long_df == melt(filt_df, Indices(Len(p.datecols)))
        extra_lines == Len(filt_df) * Cardinality(p.extracols)
        Line(k) == LET r == long_df[k].row
                       c == long_df[k].col
                   IN  Tidy(ZIL, r.region_type, r.region_name,
                            IF "region_id" \in columns THEN r.region_id ELSE "",
                            "", strftime_ym(parse_date(p.datecols[c])), r.vals[c], now)
    IN  IF \/ (region_type_filter # {} /\ "region_type" \notin columns)
           \/ (region_name_filter # {} /\ "region_name" \notin columns)
        THEN Raised
        ELSE IF \/ extra_lines > 0
                \/ \E k \in 1..Len(long_df) : ~is_date(p.datecols[long_df[k].col])
        THEN Raised
        ELSE Returned([k \in 1..Len(long_df) |-> Line(k)])

\* session.get(BASE_URL); resp.raise_for_status()
ZilFetchPage ==
    /\ pc = "zil_page"
    /\ \E ok \in BOOLEAN :
          /\ requests' = Append(requests, Req("page", ok))
          /\ IF ok
             THEN /\ \E h \in ZilPages : resp' = h
                  /\ pc' = "zil_discover"
                  /\ UNCHANGED <<exit, errors>>
             ELSE /\ Ends(1, {"fetch"})
                  /\ UNCHANGED resp
    /\ UNCHANGED <<dirs, files, runNo, src, month, force, api_key, links, idx, target,
                   existing, df, frames, stdout, writes, decisions, dirs0, files0, unitVars>>

\* main, lines 237-244
ZilDiscover ==
    /\ pc = "zil_discover"
    /\ LET found == discover_zori_csv_links(resp)
       IN  IF found = <<>>
           THEN /\ Ends(1, {"discovery"})
                /\ UNCHANGED <<links, existing>>
           ELSE /\ links' = found
                /\ existing' = load_existing_silver_months(ZIL, dirs)
                /\ pc' = "zil_loop"
                /\ UNCHANGED <<exit, errors>>
    /\ UNCHANGED <<dirs, files, runNo, src, month, force, api_key, idx, target, resp, df,
                   frames, stdout, requests, writes, decisions, dirs0, files0, unitVars>>

\* The body of the loop over links, lines 245-296, for links[idx].  Any
\* exception is printed to stderr and the loop goes on with the next link.
ZilArtifact ==
    /\ pc = "zil_loop"
    /\ idx <= Len(links)
    /\ idx' = idx + 1
    /\ LET link == links[idx]
       IN  \E ok \in BOOLEAN :
             /\ requests' = Append(requests, Req("artifact", ok))
             /\ IF ~ok
                THEN /\ errors' = errors \cup {"fetch"}
                     /\ UNCHANGED <<dirs, files, writes, target, df, frames, decisions>>
                ELSE \E id \in ZilServes(link.kind) :
                       LET latest == latest_month_from_df(id)
                           target_month == IF month # NoMonth THEN month ELSE latest.period
                           bronze_dir == DirOf("bronze", ZIL, target_month)
                           tmp_csv_path == Path("bronze", ZIL, target_month, slug_csv(link.text))
                           tidy_df ==
                               IF text_has(link.text, "zip")
                               THEN tidy_zori(id, {"zip"}, {}, {"336"}, runNo)
                               ELSE IF text_has(link.text, "metro")
                               THEN tidy_zori(id, {"msa"}, {"Tampa, FL"}, {}, runNo)
                               ELSE tidy_zori(id, {"city"}, {"Tampa, FL"}, {}, runNo)
                       IN  /\ df' = id
                           /\ IF latest.err
                              THEN /\ errors' = errors \cup {"schema"}
                                   /\ UNCHANGED <<dirs, files, writes, target, frames, decisions>>
                              ELSE /\ target' = target_month
                                   /\ decisions' = decisions \cup
                                         {Decision(target_month,
                                                   should_skip(force, target_month, existing))}
                                   /\ IF should_skip(force, target_month, existing)
                                      THEN UNCHANGED <<dirs, files, writes, frames, errors>>
                                      ELSE /\ dirs' = mkdir(dirs, bronze_dir)
                                           /\ files' = write_file(files, tmp_csv_path,
                                                                  Bronze(id, "raw", runNo))
                                           /\ writes' = writes \cup ({bronze_dir} \ dirs)
                                                               \cup {tmp_csv_path}
                                           /\ IF tidy_df.err
                                              THEN /\ errors' = errors \cup {"schema"}
                                                   /\ UNCHANGED frames
                                              ELSE /\ frames' = Append(frames,
                                                         [target_month |-> target_month,
                                                          df |-> tidy_df.rows])
                                                   /\ UNCHANGED errors
    /\ UNCHANGED <<runNo, pc, src, month, force, api_key, links, existing, resp, stdout,
                   exit, dirs0, files0, unitVars>>

\* main, lines 297-299, once the loop is over
ZilAfterLoop ==
    /\ pc = "zil_loop"
    /\ idx > Len(links)
    /\ IF frames = <<>>
       THEN /\ Ends(0, {})
            /\ UNCHANGED idx
       ELSE /\ pc' = "zil_write"
            /\ idx' = 1
            /\ UNCHANGED <<exit, errors>>
    /\ UNCHANGED <<dirs, files, runNo, src, month, force, api_key, links, target, existing,
                   resp, df, frames, stdout, requests, writes, decisions, dirs0, files0, unitVars>>

\* One turn of the loop over tidy_frames, lines 301-307.
ZilWriteFrame ==
    /\ pc = "zil_write"
    /\ idx <= Len(frames)
    /\ LET target_month == frames[idx].target_month
           silver_dir == DirOf("silver", ZIL, target_month)
           silver_path == Path("silver", ZIL, target_month, "zori_tampa.parquet")
       IN  /\ dirs' = mkdir(dirs, silver_dir)
           /\ files' = write_file(files, silver_path, Silver(frames[idx].df, runNo))
           /\ writes' = writes \cup ({silver_dir} \ dirs) \cup {silver_path}
           /\ stdout' = Append(stdout, Summary(ZIL, target_month, Len(frames[idx].df),
                                               silver_path))
    /\ idx' = idx + 1
    /\ IF idx = Len(frames)
       THEN Ends(0, {})
       ELSE UNCHANGED <<pc, exit, errors>>
    /\ UNCHANGED <<runNo, src, month, force, api_key, links, target, existing, resp, df,
                   frames, requests, decisions, dirs0, files0, unitVars>>

ZilNext == ZilFetchPage \/ ZilDiscover \/ ZilArtifact \/ ZilAfterLoop \/ ZilWriteFrame

Next ==
    \/ \E m \in MonthArgs, f \in BOOLEAN : StartRun(APL, m, f, "<unset>")
    \/ \E f \in BOOLEAN, k \in ApiKeys : StartRun(FRED, NoMonth, f, k)
    \/ \E m \in MonthArgs, f \in BOOLEAN, k \in ApiKeys : FredRejectMonth(m, f, k)
    \/ \E m \in MonthArgs, f \in BOOLEAN : StartRun(ZIL, m, f, "<unset>")
    \/ AplNext
    \/ FredNext
    \/ ZilNext

Spec == Init /\ [][Next]_vars

\* --------------------------------------------------- interrupted writes
\* A file pq.write_table left unfinished.
Truncated(at) == [kind |-> "silver", bytes |-> "", enc |-> "truncated", rows |-> <<>>, at |-> at]

\* save_parquet cut short: out_path.parent.mkdir(...) is done, then the process
\* is killed (code 137) or write_table raises (code 1) before the file is
\* complete; on disk is the directory with no file or with a truncated one.
SaveParquetInterrupted ==
    /\ pc \in {"apl_silver", "fred_silver", "zil_write"}
    /\ LET key == IF pc = "zil_write" THEN frames[idx].target_month ELSE target
           name == CASE pc = "apl_silver" -> "apartmentlist_tampa.parquet"
                     [] pc = "fred_silver" -> "fred_tampa_rent.parquet"
                     [] pc = "zil_write" -> "zori_tampa.parquet"
           silver_dir == DirOf("silver", src, key)
           silver_path == Path("silver", src, key, name)
       IN  /\ dirs' = mkdir(dirs, silver_dir)
           /\ \E left \in {"nothing", "truncated"} :
                 IF left = "nothing"
                 THEN /\ UNCHANGED files
                      /\ writes' = writes \cup ({silver_dir} \ dirs)
                 ELSE /\ files' = write_file(files, silver_path, Truncated(runNo))
                      /\ writes' = writes \cup ({silver_dir} \ dirs) \cup {silver_path}
    /\ \E code \in {1, 137} : Ends(code, {"interrupted"})
    /\ UNCHANGED <<runNo, src, month, force, api_key, links, idx, target, existing, resp,
                   df, frames, stdout, requests, decisions, dirs0, files0, unitVars>>

CrashNext == Next \/ SaveParquetInterrupted

CrashSpec == Init /\ [][CrashNext]_vars

\* ------------------------------------------------------- concurrent runs
\* Two processes of the ingestion scripts in flight at once over the same
\* data/ tree. dirs and files are shared; everything else is a process's own.
\* The process at the processor owns the run variables, the other one is kept
\* in the record other; the operating system may switch them between any two
\* filesystem or network operations. No script takes a lock.
Locals ==
    [runNo |-> runNo, pc |-> pc, src |-> src, month |-> month, force |-> force,
     api_key |-> api_key, links |-> links, idx |-> idx, target |-> target,
     existing |-> existing, resp |-> resp, df |-> df, frames |-> frames,
     stdout |-> stdout, exit |-> exit, requests |-> requests, writes |-> writes,
     errors |-> errors, decisions |-> decisions, dirs0 |-> dirs0, files0 |-> files0]

\* The first process starts on the tree as Init leaves it.
ParStart(s, m, f, k) == runNo = 0 /\ StartRun(s, m, f, k)

\* A second process starts beside the first, which has taken no step yet; which
\* of the two runs from then on is Switch's choice.
Launch(s, m, f, k) ==
    /\ pc \in {"apl_page", "fred_key", "zil_page"}
    /\ other = NoRun
    /\ runNo < MaxRuns
    /\ other' = Locals
    /\ runNo' = runNo + 1
    /\ src' = s
    /\ month' = m
    /\ force' = f
    /\ api_key' = k
    /\ pc' = CASE s = APL -> "apl_page" [] s = FRED -> "fred_key" [] s = ZIL -> "zil_page"
    /\ links' = <<>>
    /\ idx' = 1
    /\ target' = NoMonth
    /\ existing' = {}
    /\ resp' = IF s = ZIL THEN <<>> ELSE {}
    /\ df' = ""
    /\ frames' = <<>>
    /\ stdout' = <<>>
    /\ exit' = 0
    /\ requests' = <<>>
    /\ writes' = {}
    /\ errors' = {}
    /\ decisions' = {}
    /\ dirs0' = dirs
    /\ files0' = files
    /\ UNCHANGED <<dirs, files, fetchVars, tidyVars, api, sensor, asset>>

\* The processor goes to the other process, which has not ended.
Switch ==
    /\ other # NoRun
    /\ other.pc # "done"
    /\ other' = Locals
    /\ runNo' = other.runNo
    /\ pc' = other.pc
    /\ src' = other.src
    /\ month' = other.month
    /\ force' = other.force
    /\ api_key' = other.api_key
    /\ links' = other.links
    /\ idx' = other.idx
    /\ target' = other.target
    /\ existing' = other.existing
    /\ resp' = other.resp
    /\ df' = other.df
    /\ frames' = other.frames
    /\ stdout' = other.stdout
    /\ exit' = other.exit
    /\ requests' = other.requests
    /\ writes' = other.writes
    /\ errors' = other.errors
    /\ decisions' = other.decisions
    /\ dirs0' = other.dirs0
    /\ files0' = other.files0
    /\ UNCHANGED <<dirs, files, fetchVars, tidyVars, api, sensor, asset>>

\* The command lines of the two processes: --month absent or canonical.
ParMonths == {NoMonth, T2025_08}
ParKeys == {"", "abc123"}

ParNext ==
    \/ \E m \in ParMonths, f \in BOOLEAN : ParStart(APL, m, f, "<unset>")
    \/ \E f \in BOOLEAN, k \in ParKeys : ParStart(FRED, NoMonth, f, k)
    \/ \E m \in ParMonths, f \in BOOLEAN : ParStart(ZIL, m, f, "<unset>")
    \/ \E m \in ParMonths, f \in BOOLEAN : Launch(APL, m, f, "<unset>")
    \/ \E f \in BOOLEAN, k \in ParKeys : Launch(FRED, NoMonth, f, k)
    \/ \E m \in ParMonths, f \in BOOLEAN : Launch(ZIL, m, f, "<unset>")
    \/ Switch
    \/ AplNext
    \/ FredNext
    \/ ZilNext

ParSpec == Init /\ [][ParNext]_vars

\* ----------------------------------------------------------- fetch layer
\* create_session: Retry(total=5, backoff_factor=1,
\*                       status_forcelist=(500, 502, 503, 504),
\*                       allowed_methods=["GET"])
\* total is the number of retries urllib3 allows after the first try.
RetryTotal == 5
status_forcelist == {500, 502, 503, 504}

\* Retry.RETRY_AFTER_STATUS_CODES: create_session leaves
\* respect_retry_after_header at its default, True.
RETRY_AFTER_STATUS_CODES == {413, 429, 503}

\* The URLs the scripts request.  PAGE_URL, BASE_URL, API_BASE and the
\* Apartment List CSV ("https:" + url) are https; a Zillow href is taken as it
\* stands when it starts with "http".
Urls ==
    { [src |-> APL, kind |-> "page", scheme |-> "https"],
      [src |-> APL, kind |-> "artifact", scheme |-> "https"],
      [src |-> FRED, kind |-> "api", scheme |-> "https"],
      [src |-> ZIL, kind |-> "page", scheme |-> "https"],
      [src |-> ZIL, kind |-> "artifact", scheme |-> "https"],
      [src |-> ZIL, kind |-> "artifact", scheme |-> "http"] }

\* session.mount: apartmentlist mounts the adapter on "https://" and
\* "http://", fred and zillow_zori on "https://" only; any other URL goes
\* through the default adapter of requests, which retries nothing.
mounted(u) == u.scheme = "https" \/ u.src = APL
retry_total(u) == IF mounted(u) THEN RetryTotal ELSE 0
forcelist(u) == IF mounted(u) THEN status_forcelist ELSE {}

\* What one try may end with: a response (status, whether it carries a
\* Retry-After header), or no response at all (status 0: connection error,
\* timeout).
Response(status, retry_after) == [status |-> status, retry_after |-> retry_after]
Responses ==
    { Response(0, FALSE), Response(200, FALSE), Response(404, FALSE),
      Response(429, FALSE), Response(429, TRUE), Response(500, FALSE),
      Response(503, FALSE) }

\* Retry.is_retry(method, status_code, has_retry_after) for a GET
is_retry(u, left, r) ==
    \/ r.status \in forcelist(u)
    \/ left # 0 /\ r.retry_after /\ r.status \in RETRY_AFTER_STATUS_CODES

\* Retry.is_exhausted with the exhaustion one retry late.
is_exhausted_one_late(left) == left < -1

\* Retry.is_exhausted after Retry.increment: total below 0
is_exhausted(left) == left < 0

\* session.get(url, timeout=60) enters the adapter.
Get(u) ==
    /\ fetch = "idle"
    /\ req_url' = u
    /\ attempts' = <<>>
    /\ total' = retry_total(u)
    /\ fetch' = "trying"
    /\ UNCHANGED <<runVars, tidyVars, outerVars>>

\* One try of the request.  A try without response, or with a response
\* is_retry accepts, costs one retry: when none is left the call raises
\* (ConnectionError, RetryError), else the request is sent again.  Any other
\* response is handed back, and resp.raise_for_status() raises on 4xx, 5xx.
Attempt(r) ==
    /\ fetch = "trying"
    /\ attempts' = Append(attempts, r)
    /\ IF r.status = 0 \/ is_retry(req_url, total, r)
       THEN /\ total' = total - 1
            /\ fetch' = IF is_exhausted(total - 1) THEN "raised" ELSE "trying"
       ELSE /\ total' = total
            /\ fetch' = IF r.status \in 200..399 THEN "returned" ELSE "raised"
    /\ UNCHANGED <<req_url, runVars, tidyVars, outerVars>>

FetchNext ==
    \/ \E u \in Urls : Get(u)
    \/ \E r \in Responses : Attempt(r)

FetchSpec == Init /\ [][FetchNext]_vars

\* ---------------------------------------------------------- transformers
\* The transformers on their own, over every frame of at most MaxRows lines
\* built from a small pool of cells.
SeqsUpTo(S, n) == UNION { [1..k -> S] : k \in 0..n }

\* The cells of a line under n period columns: all numbers, all missing, or
\* a number under the first column only.
Full(n, base) == [c \in 1..n |-> base + c]
Missing(n) == [c \in 1..n |-> NaN]
Partial(n, base) == [c \in 1..n |-> IF c = 1 THEN base + 1 ELSE NaN]

\* Lines of an Apartment List CSV; a location has its own code.
AplFips(nm) ==
    CASE nm = "Tampa, FL" -> "45300"
      [] nm = "Tampa" -> "71000"
      [] nm = "Miami, FL" -> "33100"
AplRowPool(n) ==
    { Row("Metro", "Tampa, FL", AplFips("Tampa, FL"), "overall", v) :
        v \in {Full(n, 1700), Missing(n), Partial(n, 1700)} }
    \cup { Row("Metro", "Tampa", AplFips("Tampa"), "overall", v) :
        v \in {Full(n, 1600), Missing(n)} }
    \cup { Row("Metro", "Tampa, FL", AplFips("Tampa, FL"), "1br", Full(n, 1400)),
           Row("Metro", "Miami, FL", AplFips("Miami, FL"), "overall", Full(n, 2400)),
           Row("County", "Tampa, FL", "12057", "overall", Full(n, 1500)) }

AplFrames ==
    UNION { { [idcols |-> AplHeaders, datecols |-> dc, extracols |-> {}, rows |-> rs] :
                rs \in SeqsUpTo(AplRowPool(Len(dc)), MaxRows) } :
            dc \in { <<>>, <<U2025_08>>, <<U2025_08, U2025_09>> } }
    \cup { [idcols |-> {"location_fips_code", "bed_size"}, datecols |-> <<U2025_08>>,
            extracols |-> {}, rows |-> rs] :
            rs \in SeqsUpTo({Row("", "", "45300", "overall", <<1701>>)}, 1) }

\* Lines of a Zillow ZORI CSV.
ZilRowPool(n) ==
    { Row("msa", "Tampa, FL", "395148", "", v) : v \in {Full(n, 2100), Partial(n, 2100)} }
    \cup { Row("msa", "Miami, FL", "394856", "", Full(n, 2800)),
           Row("city", "Tampa, FL", "41176", "", Full(n, 2000)) }

ZilFrames ==
    UNION { { [idcols |-> {"RegionID", "SizeRank", "RegionName", "RegionType", "StateName"},
               datecols |-> dc, extracols |-> ex, rows |-> rs] :
                ex \in { {}, {"Metro"} },
                rs \in SeqsUpTo(ZilRowPool(Len(dc)), MaxRows) } :
            dc \in { <<>>, <<D2025_09_30>>, <<D2025_08_31, D2025_09_30>> } }
    \cup { [idcols |-> {"RegionID", "RegionName"}, datecols |-> <<D2025_09_30>>,
            extracols |-> {}, rows |-> rs] :
            rs \in SeqsUpTo({Row("", "Tampa, FL", "395148", "", <<2101>>)}, 1) }

\* Observations of the FRED document.
FredObsPool ==
    { Obs(D2025_08_01, "412", 412), Obs(D2025_08_01, ".", 0),
      Obs(D2025_09_01, "413", 413), Obs(D2025_09_01, ".", 0) }
FredFrames == SeqsUpTo(FredObsPool, MaxRows) \ {<<>>}

WideFrames(s) ==
    CASE s = APL -> AplFrames
      [] s = FRED -> FredFrames
      [] s = ZIL -> ZilFrames

Tidied(call, arg, err, fs, rows) ==
    [call |-> call, arg |-> arg, err |-> err, frames |-> fs, rows |-> rows]

\* pd.read_csv / data.get("observations") hands a frame over.
ReadFrame(s, f) ==
    /\ wide = NoFrame
    /\ wide' = [src |-> s, df |-> f]
    /\ UNCHANGED <<tidied, runVars, fetchVars, outerVars>>

\* tidy_apartmentlist(df, "Metro", tampa_names[i])
CallTidyApartmentlist(i) ==
    /\ wide.src = APL
    /\ tidied = NoTidy
    /\ LET res == tidy_apartmentlist("unit", "Metro", tampa_names[i], runNo)
       IN  tidied' = Tidied("tidy_apartmentlist", tampa_names[i], res.err, <<>>, res.rows)
    /\ UNCHANGED <<wide, runVars, fetchVars, outerVars>>

\* apartmentlist main, lines 284-308: the loop over tampa_names, then what is
\* handed to save_parquet.
CallApartmentlistMain ==
    /\ wide.src = APL
    /\ tidied = NoTidy
    /\ LET tidy_frames == apl_tidy_frames("unit", 1, runNo)
       IN  tidied' = Tidied("apartmentlist", "", apl_tidy_raised("unit", 1, runNo),
                            tidy_frames,
                            IF tidy_frames = <<>> THEN <<>>
                            ELSE drop_duplicates(concat(tidy_frames)))
    /\ UNCHANGED <<wide, runVars, fetchVars, outerVars>>

\* zillow main, lines 274-293: tidy_zori with the filters of the link's kind;
\* its frame is what save_parquet gets.
CallTidyZori(kind) ==
    /\ wide.src = ZIL
    /\ tidied = NoTidy
    /\ LET res == IF kind = "metro"
                  THEN tidy_zori("unit", {"msa"}, {"Tampa, FL"}, {}, runNo)
                  ELSE tidy_zori("unit", {"city"}, {"Tampa, FL"}, {}, runNo)
       IN  tidied' = Tidied("tidy_zori", kind, res.err, <<>>, res.rows)
    /\ UNCHANGED <<wide, runVars, fetchVars, outerVars>>

\* fred main, lines 139-150: the frame handed to save_parquet.
CallFredTidy ==
    /\ wide.src = FRED
    /\ tidied = NoTidy
    /\ tidied' = Tidied("fred", "", FALSE, <<>>, fred_tidy("unit", runNo))
    /\ UNCHANGED <<wide, runVars, fetchVars, outerVars>>

TidyNext ==
    \/ \E s \in Sources : \E f \in WideFrames(s) : ReadFrame(s, f)
    \/ \E i \in 1..Len(tampa_names) : CallTidyApartmentlist(i)
    \/ CallApartmentlistMain
    \/ \E kind \in {"metro", "city"} : CallTidyZori(kind)
    \/ CallFredTidy

TidySpec == Init /\ [][TidyNext]_vars

\* --------------------------------------------------------------- REST API
\* GET /v1/health of rent_signals_api, one exchange after another.
\* Number of exchanges in one behaviour.
MaxExchanges == 2

\* What execute_query("SELECT 1 AS test_result", fetch_size=1) does: one row
\* with TEST_RESULT = 1, no row, one row with another value, or an exception.
QueryOutcomes == {"one_row_1", "no_row", "one_row_0", "raises"}

\* database.py: True for exactly one row whose TEST_RESULT is 1; any
\* exception is logged and gives False.
test_database_connection(q) == q = "one_row_1"

\* What app.main.test_database_connection is when health_check awaits it:
\* the function of database.py, or the mock a test patched in (return value
\* True or False, or a side effect that raises).
Dependencies == {"database.py", "mock_true", "mock_false", "mock_raises"}

\* await test_database_connection() inside health_check
db_check(dep, q) ==
    CASE dep = "database.py" -> IF test_database_connection(q) THEN "true" ELSE "false"
      [] dep = "mock_true" -> "true"
      [] dep = "mock_false" -> "false"
      [] dep = "mock_raises" -> "raises"

\* An HTTP response; a datetime inside the content is written Datetime(t).
HttpResponse(code, body) == [status_code |-> code, body |-> body]
Datetime(t) == [datetime |-> t]
Iso(t) == [isoformat |-> t]

\* JSONResponse(status_code, content): render() is json.dumps(content), which
\* has no encoder for a datetime object and raises TypeError; the exception
\* leaves the handler and the server answers 500.  datetimes names the
\* fields of content that hold a datetime object.
JSONResponse(code, content, datetimes) ==
    IF datetimes # {}
    THEN HttpResponse(500, [detail |-> "Internal Server Error"])
    ELSE HttpResponse(code, content)

\* http_exception_handler: ErrorResponse(...).dict(), whose timestamp is the
\* datetime object of default_factory=datetime.utcnow
http_exception_handler(code, detail, now) ==
    JSONResponse(code,
                 [error |-> "HTTP_ERROR", message |-> detail,
                  details |-> [status_code |-> code], timestamp |-> Datetime(now)],
                 {"timestamp"})

\* settings.api_version
api_version == "1.0.0"

\* health_check: the StandardAPIResponse it returns, encoded by FastAPI
\* (datetimes as ISO strings), or HTTPException(503) through the handler.
health_check(dep, q, now) ==
    LET checked == db_check(dep, q)
        db_healthy == checked = "true"
        health_data == [status |-> IF db_healthy THEN "healthy" ELSE "degraded",
                        timestamp |-> Iso(now),
                        database |-> IF db_healthy THEN "connected" ELSE "disconnected",
                        version |-> api_version]
    IN  IF checked = "raises"
        THEN http_exception_handler(503, "Service unhealthy", now)
        ELSE HttpResponse(200,
                 [success |-> db_healthy,
                  data |-> health_data,
                  metadata |-> [total_count |-> 1, returned_count |-> 1,
                                data_freshness |-> Iso(now), sources |-> <<"Snowflake">>,
                                quality_score |-> IF db_healthy THEN 10 ELSE 0],
                  pagination |-> "null"])

\* client.get("/v1/health")
GetHealth(dep, q) ==
    /\ Len(api) < MaxExchanges
    /\ api' = Append(api, [dep |-> dep, query |-> q, checked |-> db_check(dep, q),
                           response |-> health_check(dep, q, Len(api) + 1)])
    /\ UNCHANGED <<runVars, fetchVars, tidyVars, other, sensor, asset>>

HealthNext == \E dep \in Dependencies, q \in QueryOutcomes : GetHealth(dep, q)

HealthSpec == Init /\ [][HealthNext]_vars

\* -------------------------------------------------------------- scheduler
\* data_freshness_sensor, one evaluation after another.  The clock counts
\* half hours of datetime.now().
MaxClock == 6
SecondsPerTick == 1800
RunInterval == 3600

\* The rows of the freshness query: the sources loaded in the last 6 hours.
FreshSources == SUBSET {"aptlist", "zori", "fred"}

\* current_time.isoformat() and datetime.fromisoformat(last_run_time)
isoformat(t) == Iso(t)
fromisoformat(c) == c.isoformat

\* (current_time - datetime.fromisoformat(last_run_time)).total_seconds() >= 3600
elapsed_enough_inclusive(current_time, last_run_time) ==
    (current_time - fromisoformat(last_run_time)) * SecondsPerTick >= RunInterval

\* (current_time - datetime.fromisoformat(last_run_time)).total_seconds() > 3600
elapsed_enough(current_time, last_run_time) ==
    (current_time - fromisoformat(last_run_time)) * SecondsPerTick > RunInterval

\* One evaluation, dt half hours after the previous one (datetime.now() is
\* local wall time and may step back): the connection or the query may raise;
\* the cursor is <<>> for None, else <<the ISO string>>.
Evaluate(dt, fresh_sources, raises) ==
    /\ sensor.clock + dt \in 0..MaxClock
    /\ LET current_time == sensor.clock + dt
           last_run_time == sensor.cursor
           request == /\ ~raises
                      /\ fresh_sources # {}
                      /\ \/ last_run_time = <<>>
                         \/ elapsed_enough(current_time, last_run_time[1])
           new_cursor == IF request THEN <<isoformat(current_time)>> ELSE last_run_time
       IN  sensor' = [clock |-> current_time,
                      cursor |-> new_cursor,
                      run_requests |-> IF request
                                       THEN Append(sensor.run_requests, current_time)
                                       ELSE sensor.run_requests,
                      last |-> [evaluated |-> TRUE, at |-> current_time,
                                fresh |-> IF raises THEN {} ELSE fresh_sources,
                                raised |-> raises, cursor |-> last_run_time,
                                requested |-> request]]
    /\ UNCHANGED <<runVars, fetchVars, tidyVars, other, api, asset>>

SensorNext ==
    \E dt \in -1..3, fresh_sources \in FreshSources, raises \in BOOLEAN :
        Evaluate(dt, fresh_sources, raises)

SensorSpec == Init /\ [][SensorNext]_vars

\* ------------------------------------------------------- ingestion assets
\* zillow_zori_ingestion, apartmentlist_ingestion and fred_ingestion of
\* assets/ingestion.py: subprocess.run of the script without arguments, then
\* the reading of its output and the uploads.

\* ord() of the characters of a partition name
ord(c) == CASE c = "-" -> 45 [] c = "_" -> 95 [] OTHER -> 48 + DigitVal(c)

\* a < b for str
RECURSIVE str_less(_, _)
str_less(a, b) ==
    IF b = <<>> THEN FALSE
    ELSE IF a = <<>> THEN TRUE
    ELSE IF Head(a) # Head(b) THEN ord(Head(a)) < ord(Head(b))
    ELSE str_less(Tail(a), Tail(b))

\* sorted([d.name.replace("date=", "") for d in silver_base.glob("date=*")
\*         if d.is_dir()])[-1], <<>> when there is none
last_date_dir(s, d) ==
    LET names == { q.key : q \in { x \in d : x.layer = "silver" /\ x.src = s /\ x.name = "" } }
    IN  IF names = {} THEN <<>>
        ELSE CHOOSE n \in names : \A o \in names : o = n \/ str_less(o, n)

\* bronze_dir.glob("*.csv") / glob("*.json") and silver_dir.glob("*.parquet")
\* when the directory exists.
uploads(s, layer, ingested_month, d, f) ==
    IF DirOf(layer, s, ingested_month) \in d
    THEN { q \in DOMAIN f : q.layer = layer /\ q.src = s /\ q.key = ingested_month }
    ELSE {}

\* The environment the asset's process hands to the script: for fred
\* FRED_API_KEY is set, to "" when the asset's own environment lacks it.
AssetLaunch(s, k) ==
    /\ asset.run = runNo
    /\ StartRun(s, NoMonth, FALSE, k)

\* The asset after subprocess.run returned: a non-zero return code raises;
\* the last line with latest= and rows= gives the month and the row count;
\* without such a line the month is the last date=* directory on disk.
AssetFinish ==
    /\ pc = "done"
    /\ asset.run # runNo
    /\ LET parsed == IF stdout = <<>> THEN <<>> ELSE stdout[Len(stdout)].latest
           row_count == IF stdout = <<>> THEN 0 ELSE stdout[Len(stdout)].rows
           ingested_month == IF parsed # <<>> THEN parsed ELSE last_date_dir(src, dirs)
       IN  asset' =
             IF exit # 0 \/ ingested_month = <<>>
             THEN [run |-> runNo, outcome |-> "RuntimeError", month |-> <<>>, rows |-> 0,
                   uploaded |-> {}]
             ELSE [run |-> runNo, outcome |-> "Output", month |-> ingested_month,
                   rows |-> row_count,
                   uploaded |-> uploads(src, "bronze", ingested_month, dirs, files)
                                \cup uploads(src, "silver", ingested_month, dirs, files)]
    /\ UNCHANGED <<runVars, fetchVars, tidyVars, other, api, sensor>>

AssetNext ==
    \/ AssetLaunch(APL, "<unset>")
    \/ \E k \in {"", "abc123"} : AssetLaunch(FRED, k)
    \/ AssetLaunch(ZIL, "<unset>")
    \/ AplNext
    \/ FredNext
    \/ ZilNext
    \/ AssetFinish

AssetSpec == Init /\ [][AssetNext]_vars

\* ================================================================ claims
\* What the claims speak of, read off the state of the active run.
Skipped == { d.period : d \in { x \in decisions : x.skip } }
Resolved == { d.period : d \in decisions }

SilverName(s) ==
    CASE s = APL -> "apartmentlist_tampa.parquet"
      [] s = FRED -> "fred_tampa_rent.parquet"
      [] s = ZIL -> "zori_tampa.parquet"
SilverFile(s, key) == Path("silver", s, key, SilverName(s))

\* The files and directories of one partition of a source, both layers.
PartitionOf(d, f, s, key) ==
    [ds |-> { q \in d : q.src = s /\ q.key = key },
     fs |-> [q \in { x \in DOMAIN f : x.src = s /\ x.key = key } |-> f[q]]]

\* The periods whose silver file the active run wrote.
LandedKeys == { w.key : w \in { x \in writes : x.layer = "silver" /\ x.name # "" } }
LinesFor(key) == { i \in 1..Len(stdout) : stdout[i].latest = key }
HasFailedRequest == \E i \in 1..Len(requests) : ~requests[i].ok

\* A token of exactly the form YYYY-MM.
IsYearMonth(k) ==
    /\ Len(k) = 7
    /\ \A i \in {1, 2, 3, 4, 6, 7} : k[i] \in Digits
    /\ k[5] = "-"

\* existingPeriods(source): the YYYY-MM suffixes of the date=<period>
\* directories under data/silver/<source>.
ExistingPeriods(s, d) ==
    { k \in { q.key : q \in { x \in d : x.layer = "silver" /\ x.src = s /\ x.name = "" } } :
        IsYearMonth(k) }

\* C1: a run without --force that resolves a period whose silver partition
\* directory existed when it started writes nothing to that partition: no
\* bronze file, no silver file, no directory; the partition is as it was.
C1_NoWriteToExistingPartition ==
    ~force =>
        \A k \in Resolved :
            DirOf("silver", src, k) \in dirs0 =>
                /\ \A w \in writes : w.key # k
                /\ PartitionOf(dirs, files, src, k) = PartitionOf(dirs0, files0, src, k)

\* C2 as stated: a run that skips an existing partition has issued no request
\* (no landing page, no API call, no artifact download) before skipping.
C2_NoRequestBeforeSkip == Skipped # {} => requests = <<>>

\* C2 as amended: the ledger is consulted after the period is resolved, and the
\* period comes from what was fetched.  A run that skips has issued its landing
\* page / API request, successfully; apartmentlist and fred skip with that one
\* request, zillow_zori has also downloaded every artifact it skips.
C2_FetchPrecedesSkip ==
    Skipped # {} =>
        /\ Len(requests) >= 1
        /\ requests[1].kind \in {"page", "api"}
        /\ requests[1].ok
        /\ src \in {APL, FRED} => Len(requests) = 1
        /\ src = ZIL =>
              Cardinality({ i \in 2..Len(requests) :
                              requests[i].kind = "artifact" /\ requests[i].ok })
                  >= Cardinality(Skipped)

C2_Witness == pc = "done" /\ runNo = 2 /\ ~force /\ Skipped # {} /\ writes = {}

C4_SkipDecision ==
    \A d \in decisions :
        d.skip <=> (~force /\ d.period \in ExistingPeriods(src, dirs0))

\* C5: when a run ends, its summary lines are one per silver partition it
\* landed: as many lines as landed partitions, exactly one for each.
C5_OneLinePerLandedPartition ==
    pc = "done" =>
        /\ Len(stdout) = Cardinality(LandedKeys)
        /\ \A k \in LandedKeys : Cardinality(LinesFor(k)) = 1

\* C6: a summary line is printed only once its silver file is written, and when
\* the run ends each line agrees with the disk: the path is under the line's
\* period and holds as many rows as the line says.
C6_SummaryAgreesWithDisk ==
    \A i \in 1..Len(stdout) :
        /\ stdout[i].saved \in DOMAIN files
        /\ stdout[i].saved \in writes
        /\ stdout[i].saved = SilverFile(stdout[i].source, stdout[i].latest)
        /\ stdout[i].source = src
        /\ pc = "done" => stdout[i].rows = Len(files[stdout[i].saved].rows)

\* Whether a fetched apartmentlist page holds a historic-estimates CSV.
AplPageHasArtifact(page) ==
    \E u \in page : u.marks = {"Apartment_List_Rent_Estimates_"}
\* Whether a fetched zillow page holds a ZORI CSV for metro, city or ZIP.
ZilPageHasArtifact(page) ==
    \E i \in 1..Len(page) :
        /\ {"zori", ".csv"} \subseteq page[i].marks
        /\ page[i].marks \cap {"metro", "city", "zip"} # {}
\* The active run fetched its landing page and went through discovery.
Discovered ==
    /\ src \in {APL, ZIL}
    /\ requests # <<>>
    /\ requests[1].ok
    /\ pc \notin {"apl_discover", "zil_discover"}

\* C7: when the landing page of apartmentlist or zillow_zori holds no matching
\* artifact, the run ends at discovery, and it has created no bronze or silver
\* file or partition directory, downloaded nothing and printed no summary.
C7_DiscoveryFailureWritesNothing ==
    (Discovered /\ ~(IF src = APL THEN AplPageHasArtifact(resp)
                                  ELSE ZilPageHasArtifact(resp))) =>
        /\ pc = "done"
        /\ writes = {}
        /\ dirs = dirs0
        /\ files = files0
        /\ Len(requests) = 1
        /\ stdout = <<>>

C7_Witness ==
    /\ Discovered
    /\ src = APL
    /\ resp = {UrlSummary09, UrlGrowth09}
    /\ pc = "done"
    /\ runNo = 2
    /\ dirs0 # {}

\* C8: a run that met a fatal error (discovery, fetch, schema, configuration)
\* ends with a non-zero code; a run that ends with code 0 met none.
C8_FatalErrorIsNonZero == (pc = "done" /\ errors # {}) => exit # 0

\* C9: with FRED_API_KEY unset or empty the fred run issues no request and
\* creates no bronze or silver file or directory; it stops at the key check.
C9_NoKeyNoRequest ==
    (src = FRED /\ runNo > 0 /\ api_key \in {"<unset>", ""}) =>
        /\ requests = <<>>
        /\ writes = {}
        /\ dirs = dirs0
        /\ files = files0
        /\ pc \in {"fred_key", "done"}

C9_Witness ==
    /\ src = FRED /\ pc = "done" /\ api_key = "" /\ runNo = 2 /\ dirs0 # {}
    /\ errors = {"config"}

\* C10: once a request of the run has failed the run is over: the failed
\* request is its last, nothing is printed, and the process has ended.
C10_FetchFailureAborts ==
    HasFailedRequest =>
        /\ pc = "done"
        /\ ~requests[Len(requests)].ok
        /\ \A i \in 1..(Len(requests) - 1) : requests[i].ok
        /\ stdout = <<>>

\* C11: once the run has read a payload without the region type / region name
\* columns or without period columns, it is over and has failed: it has ended,
\* its code is not 0, and it printed no summary.
C11_SchemaErrorIsFatal ==
    "schema" \in errors =>
        /\ pc = "done"
        /\ exit # 0
        /\ stdout = <<>>

\* The periods for which the active run transformed a payload and found no row
\* of the region, without any schema error.
RegionNotFound ==
    IF "schema" \in errors THEN {}
    ELSE IF src = APL
    THEN { k \in {target} : pc = "done" /\ df # "" /\ frames = <<>> }
    ELSE IF src = ZIL
    THEN { frames[i].target_month : i \in { j \in 1..Len(frames) : frames[j].df = <<>> } }
         \ { frames[i].target_month : i \in { j \in 1..Len(frames) : frames[j].df # <<>> } }
    ELSE {}

\* C12: a run that found no row of the region for a period ends with code 0,
\* has created no silver directory or file for that period, has printed no
\* summary line for it, and its bronze file for the period is on disk.
C12_RegionNotFoundIsSoft ==
    pc = "done" =>
        \A k \in RegionNotFound :
            /\ exit = 0
            /\ \A w \in writes : ~(w.layer = "silver" /\ w.key = k)
            /\ LinesFor(k) = {}
            /\ \E w \in writes : w.layer = "bronze" /\ w.key = k /\ w.name # ""
                                   /\ w \in DOMAIN files

\* C13 as stated: a request makes at most 5 tries, the first included.
C13_AtMostFiveAttempts == Len(attempts) <= 5

\* C13 as amended: total=5 counts the retries, so a request makes at most 6
\* tries, the first and 5 retries; while it is still trying it has made at most
\* 5; once the last try allowed has ended with a transient status, a client or
\* server error status or no response, the call has raised.
C13_AtMostTotalPlusOneAttempts ==
    /\ Len(attempts) <= RetryTotal + 1
    /\ fetch = "trying" => Len(attempts) <= retry_total(req_url)
    /\ Len(attempts) = retry_total(req_url) + 1 =>
          /\ fetch \in {"returned", "raised"}
          /\ attempts[Len(attempts)].status \notin 200..399 => fetch = "raised"

C13_Witness ==
    /\ fetch = "raised"
    /\ Len(attempts) = 6
    /\ \A i \in 1..6 : attempts[i].status \in status_forcelist

\* C14: a try that returned a status and was followed by another try of the
\* request returned 500, 502, 503 or 504; a try that returned a success or a
\* 4xx status is the last one.  For every URL of the three sources.
C14_RetryOnlyOnTransientStatus ==
    \A i \in 1..(Len(attempts) - 1) :
        attempts[i].status # 0 =>
            /\ attempts[i].status \in {500, 502, 503, 504}
            /\ attempts[i].status \notin 200..499

\* C15: a run given --month is accepted by its script and targets that month:
\* every partition it writes and every summary line it prints carries the
\* override, the ledger is asked about the override only, and every payload it
\* has read is resolved to the override, also one without parseable period.
C15_OverrideIsTarget ==
    month # NoMonth =>
        /\ "usage" \notin errors
        /\ \A w \in writes : w.key = month
        /\ \A i \in 1..Len(stdout) : stdout[i].latest = month
        /\ Resolved \subseteq {month}
        /\ (src = ZIL /\ df # "") => month \in Resolved
        /\ (src = APL /\ links # <<>>) => month \in Resolved

\* A canonical period: YYYY-MM with a month 01..12.
IsCanonical(k) == IsYearMonth(k) /\ Num(SubSeq(k, 6, 7)) \in 1..12

\* C16: every partition directory on disk, every path a run writes and every
\* summary line carries a canonical YYYY-MM key, whatever form the override
\* was given in.
C16_CanonicalPartitionKeys ==
    /\ \A d \in dirs : IsCanonical(d.key)
    /\ \A f \in DOMAIN files : IsCanonical(f.key)
    /\ \A w \in writes : IsCanonical(w.key)
    /\ \A i \in 1..Len(stdout) : IsCanonical(stdout[i].latest)


\* ------------------------------------------------------------------- C17
\* The number of times each element occurs in a sequence.
Occurrences(s) ==
    [x \in {s[i] : i \in DOMAIN s} |-> Cardinality({i \in DOMAIN s : s[i] = x})]

\* A period column's name as YYYY-MM.
NormalisedPeriod(tok) == [i \in 1..7 |-> IF tok[i] = "_" THEN "-" ELSE tok[i]]

\* The lines of the frame under test that pass the geographic filter of the
\* transformer call recorded in tidied.
PassesFilter(r) ==
    CASE tidied.call = "tidy_apartmentlist" ->
           Lower(r.region_type) = "metro" /\ str_contains(r.region_name, tidied.arg)
      [] tidied.call = "tidy_zori" ->
           /\ Lower(r.region_type) = (IF tidied.arg = "metro" THEN "msa" ELSE "city")
           /\ Lower(r.region_name) = "tampa, fl"
      [] OTHER -> FALSE
Passing == SelectSeq(wide.df.rows, PassesFilter)

\* The case of the conservation contract: a wide frame with its region
\* columns, k >= 1 lines passing the filter, n >= 1 period columns, every cell
\* of the passing lines numeric.
ConservationCase ==
    /\ tidied.call \in {"tidy_apartmentlist", "tidy_zori"}
    /\ IF wide.src = APL
       THEN {"location_name", "location_type"} \subseteq wide.df.idcols
       ELSE {"RegionName", "RegionType"} \subseteq wide.df.idcols
    /\ Len(Passing) >= 1
    /\ Len(wide.df.datecols) >= 1
    /\ \A i \in 1..Len(Passing) : \A c \in 1..Len(wide.df.datecols) :
          Passing[i].vals[c] # NaN

\* The tidy rows the contract asks for, one per (passing line, period column).
ExpectedTidy ==
    LET k == Len(Passing)
        n == Len(wide.df.datecols)
    IN  [j \in 1..(k * n) |->
            LET r == Passing[((j - 1) % k) + 1]
                c == ((j - 1) \div k) + 1
            IN  [region_type |-> r.region_type, region_name |-> r.region_name,
                 region_id |-> r.region_id,
                 period |-> NormalisedPeriod(wide.df.datecols[c]), value |-> r.vals[c]]]

Identity(t) ==
    [region_type |-> t.region_type, region_name |-> t.region_name,
     region_id |-> t.region_id, period |-> t.period, value |-> t.value]

\* C17: a wide input with k lines passing the geographic filter and n period
\* columns, all cells numeric, yields exactly k*n tidy rows, one per (line,
\* period column), each with the line's region identity, the column's name as
\* YYYY-MM and the cell's value.
C17_WideToLongConservation ==
    ConservationCase =>
        /\ ~tidied.err
        /\ Len(tidied.rows) = Len(Passing) * Len(wide.df.datecols)
        /\ Occurrences([j \in 1..Len(tidied.rows) |-> Identity(tidied.rows[j])])
             = Occurrences(ExpectedTidy)


\* ------------------------------------------------------------------- C18
\* The lines of the frame under test that variant v of tampa_names matches:
\* region type equal to "Metro" and region name containing the variant, both
\* without regard to case.
Matched(v) ==
    LET M(r) == Lower(r.region_type) = Lower("Metro")
                /\ str_contains(r.region_name, tampa_names[v])
    IN  SelectSeq(wide.df.rows, M)

MatchingVariants == { v \in 1..Len(tampa_names) : Matched(v) # <<>> }
FirstMatching == CHOOSE v \in MatchingVariants : \A w \in MatchingVariants : v <= w

WithBed(t) ==
    [region_type |-> t.region_type, region_name |-> t.region_name,
     region_id |-> t.region_id, bed_size |-> t.bed_size,
     period |-> t.period, value |-> t.value]

\* The tidy rows of a sequence of lines: one per (line, period column) whose
\* cell is not missing.
TidyOf(rows) ==
    LET n == Len(wide.df.datecols)
        k == Len(rows)
        all == [j \in 1..(k * n) |->
                   LET r == rows[((j - 1) % k) + 1]
                       c == ((j - 1) \div k) + 1
                   IN  [region_type |-> r.region_type, region_name |-> r.region_name,
                        region_id |-> r.region_id, bed_size |-> r.bed_size,
                        period |-> NormalisedPeriod(wide.df.datecols[c]),
                        value |-> r.vals[c]]]
        Present(t) == t.value # NaN
    IN  SelectSeq(all, Present)

\* The loop of apartmentlist main has run on a frame that has its region
\* columns and a period column.
PrecedenceCase ==
    /\ tidied.call = "apartmentlist"
    /\ {"location_name", "location_type"} \subseteq wide.df.idcols
    /\ Len(wide.df.datecols) >= 1

\* The loop of apartmentlist main found nothing ("no Tampa data found").
RegionNotFoundReported == tidied.call = "apartmentlist" /\ tidied.frames = <<>>

\* C18: the variants are tried in order; the output is exactly the rows of the
\* first variant that matches a line, later variants are not applied, and
\* region-not-found is reported only if no variant matches any line.
C18_FirstMatchWins ==
    PrecedenceCase =>
        IF MatchingVariants = {}
        THEN RegionNotFoundReported
        ELSE /\ ~RegionNotFoundReported
             /\ Occurrences([j \in 1..Len(concat(tidied.frames)) |->
                                WithBed(concat(tidied.frames)[j])])
                  = Occurrences(TidyOf(Matched(FirstMatching)))


\* The variants whose matched lines carry at least one value.
YieldingVariants == { v \in 1..Len(tampa_names) : TidyOf(Matched(v)) # <<>> }
FirstYielding == CHOOSE v \in YieldingVariants : \A w \in YieldingVariants : v <= w

\* C18 as the loop has it: the variants are tried in order and the loop stops
\* at the first variant whose matched lines give at least one row with a
\* value; the output is exactly those rows, from that variant alone, and
\* region-not-found is reported exactly if no variant gives such a row.
C18_FirstYieldingWins ==
    PrecedenceCase =>
        IF YieldingVariants = {}
        THEN RegionNotFoundReported
        ELSE /\ Len(tidied.frames) = 1
             /\ Occurrences([j \in 1..Len(tidied.frames[1]) |-> WithBed(tidied.frames[1][j])])
                  = Occurrences(TidyOf(Matched(FirstYielding)))

\* The second variant is the first to give rows, a later variant matches other
\* lines as well, and the output has the second variant's rows.
C18_Witness ==
    /\ PrecedenceCase
    /\ YieldingVariants # {}
    /\ FirstYielding = 2
    /\ 4 \in YieldingVariants
    /\ Matched(4) # Matched(2)
    /\ Len(tidied.frames) = 1
    /\ Len(tidied.frames[1]) = Len(TidyOf(Matched(2)))


\* ------------------------------------------------------------------- C19
\* The rows of the silver files a run has written.
WrittenSilver == { w \in writes : w.layer = "silver" /\ w.name # "" /\ w \in DOMAIN files }

\* C19: no row written to a silver partition has a missing value; a cell that
\* fails numeric coercion gives no row.
C19_NoMissingValueInSilver ==
    \A w \in WrittenSilver :
        \A i \in 1..Len(files[w].rows) : files[w].rows[i].value # NaN


\* ------------------------------------------------------------------- C20
\* The frame a script's main hands to save_parquet for a silver partition.
HandedToSilver ==
    IF tidied.call \in {"apartmentlist", "tidy_zori", "fred"} /\ ~tidied.err
    THEN tidied.rows ELSE <<>>

UniqueKey(t) ==
    [source |-> t.source, region_id |-> t.region_id, bed_size |-> t.bed_size,
     period |-> t.period]

\* C20: in a silver partition no two rows share (source, region identifier,
\* secondary dimension, period), whatever the input, duplicated lines included.
C20_SilverRowsUnique ==
    \A i, j \in 1..Len(HandedToSilver) :
        UniqueKey(HandedToSilver[i]) = UniqueKey(HandedToSilver[j]) => i = j


\* ------------------------------------------------------------------- C21
\* The bronze files a run has written.
WrittenBronze == { w \in writes : w.layer = "bronze" /\ w.name # "" /\ w \in DOMAIN files }

\* C21: the bronze file landed for a (source, period) is byte for byte the
\* payload received, not parsed and serialised again.
C21_BronzeIsVerbatim ==
    \A w \in WrittenBronze : files[w].enc = "raw"


\* ------------------------------------------------------------------- C25
\* C25: when a zillow_zori run ends, the silver file of a month holds the tidy
\* rows of every artifact the run transformed for that month.
C25_SilverHoldsEveryArtifact ==
    (src = ZIL /\ pc = "done" /\ exit = 0) =>
        \A i \in 1..Len(frames) :
            LET silver_path == Path("silver", ZIL, frames[i].target_month, "zori_tampa.parquet")
            IN  /\ silver_path \in DOMAIN files
                /\ \A j \in 1..Len(frames[i].df) :
                      \E k \in 1..Len(files[silver_path].rows) :
                          files[silver_path].rows[k] = frames[i].df[j]


\* ------------------------------------------------------------------- C30
\* The observations of the region selected by the loop over tampa_names in the
\* payload the run read: one per (line, period column) with a numeric cell.
SelectedObservations ==
    LET p == Payload(df)
        Sel(r) == \E i \in 1..Len(frames) : \E j \in 1..Len(frames[i]) :
                      /\ frames[i][j].region_name = r.region_name
                      /\ frames[i][j].region_type = r.region_type
    IN  { [region_name |-> p.rows[i].region_name, bed_size |-> p.rows[i].bed_size,
           period |-> str_replace_underscore(p.datecols[c]), value |-> p.rows[i].vals[c]] :
            i \in { k \in 1..Len(p.rows) : Sel(p.rows[k]) },
            c \in 1..Len(p.datecols) }

\* C30: every (region, bed_size, period) observation of the selected region
\* with a numeric value is in the landed silver file; de-duplication removes
\* no row that differs from the kept one in its bed_size.
C30_DedupKeepsBedSizes ==
    (src = APL /\ pc = "done" /\ frames # <<>>) =>
        LET silver_path == Path("silver", APL, target, "apartmentlist_tampa.parquet")
        IN  \A o \in SelectedObservations :
                o.value # NaN =>
                    \E k \in 1..Len(files[silver_path].rows) :
                        LET t == files[silver_path].rows[k]
                        IN  /\ t.region_name = o.region_name
                            /\ t.bed_size = o.bed_size
                            /\ t.period = o.period
                            /\ t.value = o.value


\* ------------------------------------------------------------------- C28
\* What a script makes of a bronze file b, stamped at time now: the rows its
\* silver write would hold.
TransformOf(b, now) ==
    CASE b.src = APL ->
           LET tidy_frames == apl_tidy_frames(files[b].bytes, 1, now)
           IN  IF tidy_frames = <<>> THEN <<>> ELSE drop_duplicates(concat(tidy_frames))
      [] b.src = FRED -> fred_tidy(files[b].bytes, now)
      [] b.src = ZIL ->
           (IF b.name = "zip_zori.csv"
            THEN tidy_zori(files[b].bytes, {"zip"}, {}, {"336"}, now)
            ELSE IF b.name = "metro_zori.csv"
            THEN tidy_zori(files[b].bytes, {"msa"}, {"Tampa, FL"}, {}, now)
            ELSE tidy_zori(files[b].bytes, {"city"}, {"Tampa, FL"}, {}, now)).rows

SilverFiles == { p \in DOMAIN files : p.layer = "silver" }
BronzeOf(s) == { p \in DOMAIN files : p.layer = "bronze" /\ p.src = s.src /\ p.key = s.key }

\* C28: between runs, a silver file of a (source, period) has a bronze file of
\* the same (source, period) beside it, and its rows are the transformation of
\* a bronze payload now on disk.
C28_SilverDerivesFromBronze ==
    pc \in {"idle", "done"} =>
        \A s \in SilverFiles :
            \E b \in BronzeOf(s) : files[s].rows = TransformOf(b, files[s].at)


\* ------------------------------------------------------------------- C24
\* The field k of a JSON body, "<absent>" when the body has no such field.
JsonField(body, k) == IF k \in DOMAIN body THEN body[k] ELSE "<absent>"

\* C24: GET /v1/health answers 200 when the database check returns true and
\* when it returns false; the body's 'status' and 'database' are then
\* 'healthy'/'connected' and 'degraded'/'disconnected', with 'timestamp' and
\* 'version' present; 503 is answered only when the check raises.
C24_HealthBody ==
    \A i \in 1..Len(api) :
        LET e == api[i]
            body == e.response.body
        IN  /\ e.checked = "true" =>
                  /\ e.response.status_code = 200
                  /\ JsonField(body, "status") = "healthy"
                  /\ JsonField(body, "database") = "connected"
                  /\ {"timestamp", "version"} \subseteq DOMAIN body
            /\ e.checked = "false" =>
                  /\ e.response.status_code = 200
                  /\ JsonField(body, "status") = "degraded"
                  /\ JsonField(body, "database") = "disconnected"
                  /\ {"timestamp", "version"} \subseteq DOMAIN body
            /\ e.response.status_code = 503 => e.checked = "raises"


C29_AssetReportsOwnRun ==
    (asset.run = runNo /\ asset.outcome = "Output") =>
        /\ \E w \in writes : w.key = asset.month /\ w.name # ""
        /\ asset.uploaded \subseteq writes


\* ------------------------------------------------------------------- C27
\* The partitions the ledger of source s reports as existing.
LedgerAt(s, d) ==
    IF s = FRED THEN load_existing_months(d) ELSE load_existing_silver_months(s, d)

LedgerMonths(s) == LedgerAt(s, dirs)

\* C27: a date=<period> directory the ledger reports as existing holds a
\* completely written tidy file, also after a run was killed or failed between
\* creating the directory and finishing the file.
C27_LandedMeansComplete ==
    pc \in {"idle", "done"} =>
        \A s \in Sources : \A k \in LedgerMonths(s) :
            \E p \in DOMAIN files :
                /\ p.layer = "silver" /\ p.src = s /\ p.key = k
                /\ files[p].enc = "parquet"


\* ------------------------------------------------------------------- C22
\* The paths of P under data/<layer>/<s>/.
Subtree(s, P) == {p \in P : p.src = s}

\* Two runs of distinct sources have been started side by side.
DistinctSources == other # NoRun /\ other.src # src

\* C22: runs of distinct sources executing concurrently write only under their
\* own data/bronze/<source>/ and data/silver/<source>/ subtrees: in every
\* interleaving the paths one run wrote are disjoint from the paths the other
\* wrote or listed for its ledger, the ledger a run read is the one of the tree
\* it started on, nothing but what the two wrote has changed, and every file a
\* run wrote still holds that run's content, as after running the two one after
\* another.
C22_CrossSourceIndependence ==
    DistinctSources =>
        /\ writes = Subtree(src, writes)
        /\ other.writes = Subtree(other.src, other.writes)
        /\ writes \cap other.writes = {}
        /\ Subtree(src, {d \in dirs : d.layer = "silver"}) \cap other.writes = {}
        /\ Subtree(other.src, {d \in dirs : d.layer = "silver"}) \cap writes = {}
        /\ existing \in {{}, LedgerAt(src, dirs0)}
        /\ other.existing \in {{}, LedgerAt(other.src, other.dirs0)}
        /\ (dirs \cup DOMAIN files) \ (writes \cup other.writes) = dirs0 \cup DOMAIN files0
        /\ \A p \in DOMAIN files0 \ (writes \cup other.writes) : files[p] = files0[p]
        /\ \A p \in writes \cap DOMAIN files : files[p].at = runNo
        /\ \A p \in other.writes \cap DOMAIN files : files[p].at = other.runNo

\* Two runs of distinct sources ended after each wrote its silver partition.
C22_Witness ==
    /\ DistinctSources
    /\ pc = "done" /\ other.pc = "done"
    /\ exit = 0 /\ other.exit = 0
    /\ \E p \in writes : p.layer = "silver" /\ p.name # ""
    /\ \E p \in other.writes : p.layer = "silver" /\ p.name # ""
    /\ \E p \in writes : p.layer = "bronze" /\ p.name # ""
    /\ \E p \in other.writes : p.layer = "bronze" /\ p.name # ""

\* ------------------------------------------------------------------- C23
\* Two runs of one source for one period, neither forced, are side by side.
SamePartition(k) ==
    /\ other # NoRun
    /\ other.src = src
    /\ ~force /\ ~other.force
    /\ Decision(k, FALSE) \in decisions
    /\ Decision(k, FALSE) \in other.decisions

\* C23: no lock orders the ledger check and the writes of two concurrent runs:
\* the run that writes a silver file, whatever another run wrote there before,
\* leaves its own content in it; the last writer wins.
C23_LastWriterWins ==
    [][ (pc \in {"apl_silver", "fred_silver", "zil_write"} /\ runNo' = runNo) =>
          LET key == IF pc = "zil_write" THEN frames[idx].target_month ELSE target
              name == CASE pc = "apl_silver" -> "apartmentlist_tampa.parquet"
                        [] pc = "fred_silver" -> "fred_tampa_rent.parquet"
                        [] pc = "zil_write" -> "zori_tampa.parquet"
              silver_path == Path("silver", src, key, name)
          IN  /\ silver_path \in DOMAIN files'
              /\ files'[silver_path].at = runNo
              /\ files'[silver_path].enc = "parquet" ]_vars

\* Both runs found the partition absent, both wrote bronze and silver, and the
\* silver file holds what one of the two wrote.
C23_Witness ==
    \E k \in {d.period : d \in decisions} :
        /\ SamePartition(k)
        /\ pc = "done" /\ other.pc = "done"
        /\ exit = 0 /\ other.exit = 0
        /\ \E p \in writes \cap other.writes :
               /\ p.layer = "silver" /\ p.key = k /\ p.name # ""
               /\ files[p].at \in {runNo, other.runNo}
        /\ \E p \in writes : p.layer = "bronze" /\ p.key = k /\ p.name # ""
        /\ \E p \in other.writes : p.layer = "bronze" /\ p.key = k /\ p.name # ""

====
